---------------------------- MODULE Spec2Model ----------------------------
(***************************************************************************)
(* Digital Policy Sandbox: the policy-impact simulation engine.            *)
(*                                                                         *)
(* Two implementations of the engine exist in the repository: the library  *)
(* SimulationEngine (simulation engine module, src/unnamed/part_001) and   *)
(* the engine of the simulation runner (the TypeScript part of             *)
(* src/Dockerfile, lines 68-495).  Both are modelled, operator by          *)
(* operator.  JavaScript numbers are modelled as exact rationals plus NaN. *)
(***************************************************************************)
EXTENDS Integers, Sequences, FiniteSets, TLC

VARIABLES
    input,        \* SimulationInput handed to the engines
    heap,         \* SimulationMetrics objects, by reference (index)
    libResults,   \* library engine: this.results (a reference into heap)
    returned,     \* what each completed run() returned: engine, reference, value
    progress,     \* values passed to the progress callback, per completed run
    rng,          \* state of the ambient random source (Math.random)
    aggregated,   \* result of a stand-alone aggregateParameters() call
    compared,     \* a call of compareScenarios: its arguments and its result
    metricComparison, \* a stored comparison, and the responses computed from it
    cache,        \* InMemoryCache.cache: the entry of each key
    tagIndex,     \* InMemoryCache.tagIndex: the keys listed under each tag
    stats,        \* InMemoryCache.stats: hits and misses
    now,          \* Date.now()
    cacheCall,    \* the last call on the cache and what it returned
    stageRun,     \* a run() of an engine, stage by stage
    db,           \* the database tables the route handlers read and write
    requests      \* the requests being served, each at its next await point

engineVars == <<input, heap, libResults, returned, progress, rng, aggregated>>

comparatorVars == <<compared, metricComparison>>

cacheVars == <<cache, tagIndex, stats, now, cacheCall>>

serverVars == <<stageRun, db, requests>>

vars == <<engineVars, comparatorVars, cacheVars, serverVars>>

\* the parts of the system that a specification leaves out stay idle
IdleEngine ==
    /\ input = <<>>
    /\ heap = <<>>
    /\ libResults = 0
    /\ returned = <<>>
    /\ progress = <<>>
    /\ rng = 1
    /\ aggregated = <<>>

IdleComparators == compared = <<>> /\ metricComparison = <<>>

IdleCache ==
    /\ cache = <<>>
    /\ tagIndex = <<>>
    /\ stats = <<>>
    /\ now = 0
    /\ cacheCall = <<>>

IdleServer == stageRun = <<>> /\ db = <<>> /\ requests = <<>>

(***************************************************************************)
(* JavaScript numbers: rationals n/d in lowest terms with d > 0; d = 0 is  *)
(* NaN.                                                                    *)
(***************************************************************************)
\* The value of an expression, bound once to the parameter of Body: an
\* operator's argument and a LET definition are otherwise evaluated anew at
\* each use.
Once(value, Body(_)) == CHOOSE result \in {Body(v) : v \in {value}} : TRUE

Once2(value1, value2, Body(_, _)) ==
    CHOOSE result \in {Body(v, w) : v \in {value1}, w \in {value2}} : TRUE

NaN == [n |-> 0, d |-> 0]

IsNaN(x) == x.d = 0

Abs(i) == IF i < 0 THEN -i ELSE i

RECURSIVE GCD(_, _)
GCD(a, b) == IF b = 0 THEN a ELSE Once2(b, a % b, LAMBDA p, q : GCD(p, q))

Q(n, d) ==
    Once2(n, d, LAMBDA a, b :
        IF b = 0 THEN NaN
        ELSE Once(GCD(Abs(a), Abs(b)), LAMBDA g :
                 IF b < 0 THEN [n |-> (-a) \div g, d |-> (-b) \div g]
                 ELSE [n |-> a \div g, d |-> b \div g]))

Num(i) == [n |-> i, d |-> 1]

Plus(x, y) ==
    Once2(x, y, LAMBDA a, b :
        IF IsNaN(a) \/ IsNaN(b) THEN NaN
        ELSE Once(GCD(a.d, b.d), LAMBDA g :
                 Q(a.n * (b.d \div g) + b.n * (a.d \div g), (a.d \div g) * b.d)))

Neg(x) == Once(x, LAMBDA a : IF IsNaN(a) THEN NaN ELSE [n |-> -a.n, d |-> a.d])

Minus(x, y) == Plus(x, Neg(y))

Times(x, y) ==
    Once2(x, y, LAMBDA a, b :
        IF IsNaN(a) \/ IsNaN(b) THEN NaN
        ELSE Once2(GCD(Abs(a.n), b.d), GCD(Abs(b.n), a.d), LAMBDA g1, g2 :
                 Q((a.n \div g1) * (b.n \div g2), (a.d \div g2) * (b.d \div g1))))

\* x / y for y # 0 (no division of the engine has a zero divisor for a
\* time horizon >= 1; a zero divisor yields NaN here)
Over(x, y) ==
    Once2(x, y, LAMBDA a, b :
        IF IsNaN(a) \/ IsNaN(b) \/ b.n = 0 THEN NaN
        ELSE Times(a, Q(b.d, b.n)))

\* comparisons: every comparison with NaN is false
Lt(x, y) ==
    Once2(x, y, LAMBDA a, b : ~IsNaN(a) /\ ~IsNaN(b) /\ a.n * b.d < b.n * a.d)

Le(x, y) ==
    Once2(x, y, LAMBDA a, b : ~IsNaN(a) /\ ~IsNaN(b) /\ a.n * b.d <= b.n * a.d)

Gt(x, y) == Lt(y, x)

\* Math.min / Math.max: NaN if either argument is NaN
MathMin(x, y) ==
    Once2(x, y, LAMBDA a, b :
        IF IsNaN(a) \/ IsNaN(b) THEN NaN ELSE IF Le(a, b) THEN a ELSE b)

MathMax(x, y) ==
    Once2(x, y, LAMBDA a, b :
        IF IsNaN(a) \/ IsNaN(b) THEN NaN ELSE IF Le(a, b) THEN b ELSE a)

\* floor of n/d for d > 0 (\div rounds towards minus infinity)
Floor(x) == Once(x, LAMBDA a : a.n \div a.d)

MathCeil(x) == Once(x, LAMBDA a : IF IsNaN(a) THEN NaN ELSE Num(-((-a.n) \div a.d)))

\* Math.round: floor(x + 0.5)
MathRound(x) ==
    Once(x, LAMBDA a : IF IsNaN(a) THEN NaN ELSE Num(Floor(Plus(a, Q(1, 2)))))

(***************************************************************************)
(* JavaScript values of a parameter bag: number | string | boolean |       *)
(* undefined.  One record shape for all, so that values compare.           *)
(***************************************************************************)
Undefined == [t |-> "undef", n |-> 0, d |-> 0, s |-> "", b |-> FALSE]

JsNum(x) == [t |-> "num", n |-> x.n, d |-> x.d, s |-> "", b |-> FALSE]

JsStr(str) == [t |-> "str", n |-> 0, d |-> 0, s |-> str, b |-> FALSE]

JsBool(bool) == [t |-> "bool", n |-> 0, d |-> 0, s |-> "", b |-> bool]

NumOf(v) == [n |-> v.n, d |-> v.d]

\* ToNumber: the strings of the model are non-numeric words, which convert
\* to NaN; true is 1, false is 0; undefined is NaN
ToNumber(v) ==
    CASE v.t = "num" -> NumOf(v)
      [] v.t = "bool" -> IF v.b THEN Num(1) ELSE Num(0)
      [] OTHER -> NaN

\* truthiness, as tested by || : undefined, 0, NaN, "" and false are falsy
Truthy(v) ==
    CASE v.t = "num" -> v.d # 0 /\ v.n # 0
      [] v.t = "str" -> v.s # ""
      [] v.t = "bool" -> v.b
      [] OTHER -> FALSE

\* (value || dflt) used as a number
OrDefault(v, dflt) == IF Truthy(v) THEN ToNumber(v) ELSE dflt

(***************************************************************************)
(* Parameter aggregation (library engine).  A PolicyParameters object is a *)
(* function on ParamKeys; an absent key holds Undefined (the code tests    *)
(* aggregated[key] !== undefined, and Object.entries lists present keys).  *)
(***************************************************************************)
ParamKeys ==
    {"fineAmount", "permitDuration", "inspectionFrequency", "taxRate",
     "feeAmount", "gracePeriod"}

NoParams == [k \in ParamKeys |-> Undefined]

\* ((aggregated[key] as number) + value) / 2 where value is a number: the
\* cast checks nothing, so + is JavaScript's: number + number adds, boolean +
\* number adds ToNumber(boolean), string + number concatenates, and the
\* division converts the concatenation back (NaN for a non-numeric word,
\* the number itself after the empty string).
\* A mutant of averageWith: the division by 2 forgotten.
averageWithNoHalving(existing, value) ==
    JsNum(Plus(ToNumber(existing), NumOf(value)))

averageWith(existing, value) ==
    CASE existing.t = "str" ->
            IF existing.s = "" THEN JsNum(Over(NumOf(value), Num(2)))
            ELSE JsNum(NaN)
      [] OTHER ->
            JsNum(Over(Plus(ToNumber(existing), NumOf(value)), Num(2)))

\* one [key, value] entry of a contribution's parameter set
mergeEntry(existing, value) ==
    IF value.t = "num" /\ existing.t # "undef"
    THEN averageWith(existing, value)
    ELSE value

\* body of the loop over this.input.policies: the parameter set is merged,
\* then this contribution's overrides are written over the result
applyContribution(acc, c) ==
    Once([k \in ParamKeys |->
             IF c.parameters[k].t = "undef" THEN acc[k]
             ELSE mergeEntry(acc[k], c.parameters[k])],
         LAMBDA merged :
             IF c.hasOverrides
             THEN [k \in ParamKeys |->
                     IF c.overrides[k].t = "undef" THEN merged[k] ELSE c.overrides[k]]
             ELSE merged)

RECURSIVE foldContributions(_, _, _)
foldContributions(acc, policies, i) ==
    IF i > Len(policies) THEN acc
    ELSE Once(applyContribution(acc, policies[i]),
              LAMBDA next : foldContributions(next, policies, i + 1))

aggregateParameters(policies) ==
    Once(policies, LAMBDA list : foldContributions(NoParams, list, 1))

(***************************************************************************)
(* Parameter aggregation (runner engine): the same loop, written again.    *)
(***************************************************************************)
runnerAverageWith(existing, value) ==
    CASE existing.t = "str" ->
            IF existing.s = "" THEN JsNum(Over(NumOf(value), Num(2)))
            ELSE JsNum(NaN)
      [] OTHER ->
            JsNum(Over(Plus(ToNumber(existing), NumOf(value)), Num(2)))

runnerApplyContribution(acc, c) ==
    Once([k \in ParamKeys |->
             IF c.parameters[k].t = "undef" THEN acc[k]
             ELSE IF c.parameters[k].t = "num" /\ acc[k].t # "undef"
                  THEN runnerAverageWith(acc[k], c.parameters[k])
                  ELSE c.parameters[k]],
         LAMBDA merged :
             IF c.hasOverrides
             THEN [k \in ParamKeys |->
                     IF c.overrides[k].t = "undef" THEN merged[k] ELSE c.overrides[k]]
             ELSE merged)

RECURSIVE runnerFoldContributions(_, _, _)
runnerFoldContributions(acc, policies, i) ==
    IF i > Len(policies) THEN acc
    ELSE Once(runnerApplyContribution(acc, policies[i]),
              LAMBDA next : runnerFoldContributions(next, policies, i + 1))

runnerAggregateParameters(policies) ==
    Once(policies, LAMBDA list : runnerFoldContributions(NoParams, list, 1))

(***************************************************************************)
(* Library engine: helpers.                                                *)
(*                                                                         *)
(* A citizen group is [population, complianceRate, demographics,           *)
(* behaviorRules]; a business category is [count, complianceRate,          *)
(* sizeCategory, behaviorRules].  demographics and behaviorRules are       *)
(* records of JavaScript values, Undefined for a key the object lacks (a   *)
(* null behaviorRules reads as an object without keys: the code reads it   *)
(* with ?.).  sizeCategory "" stands for null.                             *)
(***************************************************************************)
RECURSIVE SumFrom(_, _)
SumFrom(xs, i) == IF i > Len(xs) THEN Num(0) ELSE Plus(xs[i], SumFrom(xs, i + 1))

\* let total = 0; for (...) total += xs[i]
Sum(xs) == Once(xs, LAMBDA list : SumFrom(list, 1))

P(params, key, dflt) == Once(params[key], LAMBDA value : OrDefault(value, dflt))

\* A mutant of getDetectionRate: the inspection boost left out.
getDetectionRateWithoutBoost(params) == Q(3, 10)

getDetectionRate(params) ==
    LET baseRate == Q(3, 10)
        inspectionBoost ==
            MathMin(Q(4, 10), Over(P(params, "inspectionFrequency", Num(0)), Num(25)))
    IN  MathMin(Q(9, 10), Plus(baseRate, inspectionBoost))

getPermitEligibility(group) == OrDefault(group.demographics.permitEligibility, Q(3, 10))

getAverageIncome(group) == OrDefault(group.demographics.averageIncome, Num(30000))

getBusinessMultiplier(business) ==
    LET size == IF business.sizeCategory = "" THEN "small" ELSE business.sizeCategory
    IN  CASE size = "small" -> Num(1)
          [] size = "medium" -> Num(2)
          [] size = "large" -> Num(5)
          [] OTHER -> Num(1)

getAverageBusinessRevenue(business) ==
    LET size == IF business.sizeCategory = "" THEN "small" ELSE business.sizeCategory
        baseRevenue == CASE size = "small" -> Num(100000)
                         [] size = "medium" -> Num(500000)
                         [] size = "large" -> Num(2000000)
                         [] OTHER -> Num(100000)
    IN  OrDefault(business.behaviorRules.averageRevenue, baseRevenue)

getSeasonalityFactors ==
    <<Q(85, 100), Q(88, 100), Q(95, 100), Q(102, 100), Q(108, 100), Q(115, 100),
      Q(112, 100), Q(110, 100), Q(102, 100), Q(95, 100), Q(88, 100), Q(100, 100)>>

\* array[index] of a number array, used as a number: undefined (NaN in
\* arithmetic) past the end
ArrayAt(array, index) ==
    IF index >= 0 /\ index < Len(array) THEN array[index + 1] ELSE NaN

Horizon(in) == Num(in.config.timeHorizon)

(***************************************************************************)
(* Library engine: revenue.                                                *)
(***************************************************************************)
\* A mutant of revenueTotal: the taxes left out of the total.
revenueTotalWithoutTaxes(totalFines, totalPermits, totalTaxes, totalFees, growthFactor) ==
    Times(Plus(Plus(totalFines, totalPermits), totalFees), growthFactor)

revenueTotal(totalFines, totalPermits, totalTaxes, totalFees, growthFactor) ==
    Times(Plus(Plus(Plus(totalFines, totalPermits), totalTaxes), totalFees), growthFactor)

calculateRevenue(in) ==
    Once(aggregateParameters(in.policies), LAMBDA params :
    LET fineAmount == P(params, "fineAmount", Num(0))
        feeAmount == P(params, "feeAmount", Num(0))
        taxRate == P(params, "taxRate", Num(0))
        detectionRate == getDetectionRate(params)
        months == Horizon(in)
        citizens == in.citizenGroups
        businesses == in.businessCategories
        citizenFines == [i \in DOMAIN citizens |->
            Times(Times(Times(Num(citizens[i].population),
                              Minus(Num(1), citizens[i].complianceRate)),
                        detectionRate), fineAmount)]
        citizenPermits == [i \in DOMAIN citizens |->
            Times(Times(Num(citizens[i].population), getPermitEligibility(citizens[i])),
                  feeAmount)]
        citizenTaxes == [i \in DOMAIN citizens |->
            Over(Times(Times(Times(Num(citizens[i].population),
                                   getAverageIncome(citizens[i])),
                             Over(taxRate, Num(100))), months), Num(12))]
        businessFines == [i \in DOMAIN businesses |->
            Times(Times(Times(Times(Num(businesses[i].count),
                                    Minus(Num(1), businesses[i].complianceRate)),
                              detectionRate), fineAmount),
                  getBusinessMultiplier(businesses[i]))]
        businessPermits == [i \in DOMAIN businesses |->
            Times(Times(Num(businesses[i].count), feeAmount),
                  getBusinessMultiplier(businesses[i]))]
        businessTaxes == [i \in DOMAIN businesses |->
            Over(Times(Times(Times(Num(businesses[i].count),
                                   getAverageBusinessRevenue(businesses[i])),
                             Over(taxRate, Num(100))), months), Num(12))]
        totalFines == Plus(Sum(citizenFines), Sum(businessFines))
        totalPermits == Plus(Sum(citizenPermits), Sum(businessPermits))
        totalTaxes == Plus(Sum(citizenTaxes), Sum(businessTaxes))
        totalFees == Num(0)
        growthFactor ==
            Plus(Num(1), Times(Over(in.config.economicGrowth, Num(100)),
                               Over(months, Num(12))))
    IN  [total |-> revenueTotal(totalFines, totalPermits, totalTaxes, totalFees,
                                growthFactor),
         fromFines |-> Times(totalFines, growthFactor),
         fromPermits |-> Times(totalPermits, growthFactor),
         fromTaxes |-> Times(totalTaxes, growthFactor),
         fromFees |-> Times(totalFees, growthFactor),
         breakdown |->
            {<<"citizenFines", Times(Times(totalFines, Q(3, 10)), growthFactor)>>,
             <<"businessFines", Times(Times(totalFines, Q(7, 10)), growthFactor)>>,
             <<"citizenPermits", Times(Times(totalPermits, Q(4, 10)), growthFactor)>>,
             <<"businessPermits", Times(Times(totalPermits, Q(6, 10)), growthFactor)>>}])

(***************************************************************************)
(* Library engine: compliance.                                             *)
(***************************************************************************)
\* A mutant of adjustCompliance: the clamp to [0,1] left out.
adjustComplianceUnclamped(baseCompliance, impact) == Plus(baseCompliance, impact)

\* Math.min(1, Math.max(0, baseCompliance + impacts))
adjustCompliance(baseCompliance, impact) ==
    MathMin(Num(1), MathMax(Num(0), Plus(baseCompliance, impact)))

citizenComplianceImpact(params) ==
    LET fineImpact == MathMin(Q(1, 10), Over(P(params, "fineAmount", Num(0)), Num(10000)))
        inspectionImpact ==
            MathMin(Q(5, 100), Over(P(params, "inspectionFrequency", Num(0)), Num(20)))
        permitImpact ==
            Neg(MathMin(Q(2, 100),
                        Over(Minus(P(params, "permitDuration", Num(365)), Num(365)),
                             Num(3650))))
    IN  Plus(Plus(fineImpact, inspectionImpact), permitImpact)

businessComplianceImpact(params) ==
    LET fineImpact == MathMin(Q(15, 100), Over(P(params, "fineAmount", Num(0)), Num(5000)))
        inspectionImpact ==
            MathMin(Q(8, 100), Over(P(params, "inspectionFrequency", Num(0)), Num(12)))
    IN  Plus(fineImpact, inspectionImpact)

\* A mutant of WeightedAverage: the division without its guard.
WeightedAverageUnguarded(values, weights, fallback) ==
    Over(Sum([i \in DOMAIN values |-> Times(values[i], Num(weights[i]))]),
         Sum([i \in DOMAIN weights |-> Num(weights[i])]))

\* total > 0 ? weighted / total : fallback
WeightedAverage(values, weights, fallback) ==
    LET total == Sum([i \in DOMAIN weights |-> Num(weights[i])])
        weighted == Sum([i \in DOMAIN values |-> Times(values[i], Num(weights[i]))])
    IN  IF Gt(total, Num(0)) THEN Over(weighted, total) ELSE fallback

calculateCompliance(in) ==
    Once(aggregateParameters(in.policies), LAMBDA params :
    LET citizens == in.citizenGroups
        businesses == in.businessCategories
        citizenAdjusted == [i \in DOMAIN citizens |->
            adjustCompliance(citizens[i].complianceRate, citizenComplianceImpact(params))]
        businessAdjusted == [i \in DOMAIN businesses |->
            adjustCompliance(businesses[i].complianceRate, businessComplianceImpact(params))]
        citizenCompliance ==
            WeightedAverage(citizenAdjusted,
                            [i \in DOMAIN citizens |-> citizens[i].population], Num(0))
        businessCompliance ==
            WeightedAverage(businessAdjusted,
                            [i \in DOMAIN businesses |-> businesses[i].count], Num(0))
    IN  [overall |-> Over(Plus(citizenCompliance, businessCompliance), Num(2)),
         citizen |-> citizenCompliance,
         business |-> businessCompliance,
         byCategory |-> citizenAdjusted \o businessAdjusted])

(***************************************************************************)
(* Library engine: workload.  It reads this.results.compliance.overall.    *)
(***************************************************************************)
TotalPopulation(in) ==
    Sum([i \in DOMAIN in.citizenGroups |-> Num(in.citizenGroups[i].population)])

TotalBusinesses(in) ==
    Sum([i \in DOMAIN in.businessCategories |-> Num(in.businessCategories[i].count)])

\* A mutant of permitRenewalsPerYear: the duration read without its default.
permitRenewalsPerYearUnguarded(params) ==
    Over(Num(12), Over(ToNumber(params["permitDuration"]), Num(30)))

\* 12 / ((params.permitDuration || 365) / 30)
permitRenewalsPerYear(params) ==
    Over(Num(12), Over(P(params, "permitDuration", Num(365)), Num(30)))

calculateWorkload(in, results) ==
    Once(aggregateParameters(in.policies), LAMBDA params :
    LET months == Horizon(in)
        inspectionRate == Over(P(params, "inspectionFrequency", Num(0)), Num(12))
        citizenInspections == [i \in DOMAIN in.citizenGroups |->
            Times(Times(Num(in.citizenGroups[i].population), inspectionRate), months)]
        businessInspections == [i \in DOMAIN in.businessCategories |->
            Times(Times(Times(Num(in.businessCategories[i].count), inspectionRate),
                        months), Num(2))]
        totalInspections == Plus(Sum(citizenInspections), Sum(businessInspections))
        totalPopulation == TotalPopulation(in)
        totalBusinesses == TotalBusinesses(in)
        totalPermits ==
            Times(Times(Plus(Times(totalPopulation, Q(1, 10)), totalBusinesses),
                        permitRenewalsPerYear(params)), Over(months, Num(12)))
        nonCompliantRate == Minus(Num(1), results.compliance.overall)
        appealRate ==
            Times(Times(nonCompliantRate, Q(1, 10)),
                  Over(P(params, "fineAmount", Num(0)), Num(500)))
        totalAppeals == Times(Plus(totalPopulation, totalBusinesses), appealRate)
        inspectionHours == Times(totalInspections, Num(2))
        permitHours == Times(totalPermits, Q(1, 2))
        appealHours == Times(totalAppeals, Num(4))
        totalHours == Plus(Plus(inspectionHours, permitHours), appealHours)
        staffRequired ==
            MathCeil(Over(totalHours, Times(Num(160), Over(months, Num(12)))))
    IN  [totalHours |-> totalHours,
         inspections |-> MathRound(totalInspections),
         permits |-> MathRound(totalPermits),
         appeals |-> MathRound(totalAppeals),
         staffRequired |-> staffRequired])

(***************************************************************************)
(* Library engine: satisfaction.                                           *)
(***************************************************************************)
baseSatisfaction == Num(70)

\* A mutant of clampSatisfaction: the clamp to [0,100] left out.
clampSatisfactionMissing(x) == x

\* Math.min(100, Math.max(0, x))
clampSatisfaction(x) == MathMin(Num(100), MathMax(Num(0), x))

satFineImpact(params) == Neg(MathMin(Num(20), Over(P(params, "fineAmount", Num(0)), Num(50))))

satPermitImpact(params) ==
    MathMin(Num(10), Over(Minus(P(params, "permitDuration", Num(365)), Num(180)), Num(50)))

satTaxImpact(params) == Neg(MathMin(Num(15), Over(P(params, "taxRate", Num(0)), Num(2))))

satGraceImpact(params) == MathMin(Num(5), Over(P(params, "gracePeriod", Num(0)), Num(10)))

groupSatisfaction(params, group) ==
    LET incomeModifier == OrDefault(group.behaviorRules.incomeSensitivity, Num(1))
        awarenessModifier == OrDefault(group.behaviorRules.policyAwareness, Num(1))
    IN  clampSatisfaction(
            Plus(Plus(Plus(Plus(baseSatisfaction,
                                Times(satFineImpact(params), incomeModifier)),
                           satPermitImpact(params)),
                      satTaxImpact(params)),
                 Times(satGraceImpact(params), awarenessModifier)))

businessSatisfaction(params, business) ==
    LET businessFineImpact == Times(satFineImpact(params), Q(1, 2))
        businessPermitImpact == Times(satPermitImpact(params), Q(3, 2))
        businessTaxImpact == Times(satTaxImpact(params), Q(12, 10))
        sizeModifier == IF business.sizeCategory = "large" THEN Q(8, 10)
                        ELSE IF business.sizeCategory = "small" THEN Q(12, 10)
                        ELSE Num(1)
        awarenessModifier == OrDefault(business.behaviorRules.policyAwareness, Num(1))
    IN  clampSatisfaction(
            Plus(Plus(Plus(baseSatisfaction, businessFineImpact), businessPermitImpact),
                 Times(Times(businessTaxImpact, sizeModifier), awarenessModifier)))

calculateSatisfaction(in) ==
    Once(aggregateParameters(in.policies), LAMBDA params :
    LET citizens == in.citizenGroups
        businesses == in.businessCategories
        citizenValues == [i \in DOMAIN citizens |-> groupSatisfaction(params, citizens[i])]
        businessValues ==
            [i \in DOMAIN businesses |-> businessSatisfaction(params, businesses[i])]
        citizenSatisfaction ==
            WeightedAverage(citizenValues,
                            [i \in DOMAIN citizens |-> citizens[i].population],
                            baseSatisfaction)
        businessSat ==
            WeightedAverage(businessValues,
                            [i \in DOMAIN businesses |-> businesses[i].count],
                            baseSatisfaction)
    IN  [overall |-> Over(Plus(citizenSatisfaction, businessSat), Num(2)),
         citizen |-> citizenSatisfaction,
         business |-> businessSat,
         byDemographic |-> citizenValues \o businessValues])

(***************************************************************************)
(* The ambient random source.  Math.random() returns RandomValues[rng] and  *)
(* advances rng; the k-th call from state rng returns RandomAt(rng, k).     *)
(***************************************************************************)
RandomValues == <<Num(0), Q(3, 4), Q(1, 2)>>

RandomAt(seed, k) == RandomValues[((seed + k - 2) % Len(RandomValues)) + 1]

RngAfter(seed, calls) == ((seed + calls - 1) % Len(RandomValues)) + 1

\* value * (1 + (Math.random() * 0.02 - 0.01))
Jitter(value, random) ==
    Times(value, Plus(Num(1), Minus(Times(random, Q(2, 100)), Q(1, 100))))

(***************************************************************************)
(* Library engine: monthly projections, pushed onto                        *)
(* this.results.monthlyProjections.                                        *)
(***************************************************************************)
seasonFactor(in, seasonality, month) ==
    IF in.config.includeSeasonality THEN ArrayAt(seasonality, month - 1) ELSE Num(1)

monthlyProjection(in, results, month, seed) ==
    LET months == Horizon(in)
        factor == seasonFactor(in, getSeasonalityFactors, month)
        growthFactor ==
            Plus(Num(1), Times(Over(in.config.economicGrowth, Num(100)),
                               Over(Num(month), Num(12))))
    IN  [month |-> month,
         revenue |-> Times(Times(Over(results.revenue.total, months), factor),
                           growthFactor),
         compliance |-> Jitter(results.compliance.overall, RandomAt(seed, 2 * month - 1)),
         workload |-> Times(Over(results.workload.totalHours, months), factor),
         satisfaction |-> Jitter(results.satisfaction.overall, RandomAt(seed, 2 * month))]

generateMonthlyProjections(in, results, seed) ==
    results.monthlyProjections \o
        [month \in 1..in.config.timeHorizon |-> monthlyProjection(in, results, month, seed)]

(***************************************************************************)
(* Runner engine (the engine that runSimulation executes).  Its stages     *)
(* work on a results object local to run().                                *)
(***************************************************************************)
runnerDetectionRate(params) ==
    Plus(Q(3, 10),
         MathMin(Q(4, 10), Over(P(params, "inspectionFrequency", Num(0)), Num(25))))

runnerMultiplier(business) ==
    IF business.sizeCategory = "large" THEN Num(5)
    ELSE IF business.sizeCategory = "medium" THEN Num(2)
    ELSE Num(1)

runnerCalculateRevenue(in) ==
    Once(runnerAggregateParameters(in.policies), LAMBDA params :
    LET fineAmount == P(params, "fineAmount", Num(0))
        feeAmount == P(params, "feeAmount", Num(0))
        taxRate == P(params, "taxRate", Num(0))
        detectionRate == runnerDetectionRate(params)
        months == Horizon(in)
        citizens == in.citizenGroups
        businesses == in.businessCategories
        citizenFines == [i \in DOMAIN citizens |->
            Times(Times(Times(Num(citizens[i].population),
                              Minus(Num(1), citizens[i].complianceRate)),
                        detectionRate), fineAmount)]
        citizenPermits == [i \in DOMAIN citizens |->
            Times(Times(Num(citizens[i].population),
                        OrDefault(citizens[i].demographics.permitEligibility, Q(3, 10))),
                  feeAmount)]
        citizenTaxes == [i \in DOMAIN citizens |->
            Over(Times(Times(Times(Num(citizens[i].population),
                                   OrDefault(citizens[i].demographics.averageIncome,
                                             Num(30000))),
                             Over(taxRate, Num(100))), months), Num(12))]
        businessFines == [i \in DOMAIN businesses |->
            Times(Times(Times(Times(Num(businesses[i].count),
                                    Minus(Num(1), businesses[i].complianceRate)),
                              detectionRate), fineAmount),
                  runnerMultiplier(businesses[i]))]
        businessPermits == [i \in DOMAIN businesses |->
            Times(Times(Num(businesses[i].count), feeAmount),
                  runnerMultiplier(businesses[i]))]
        totalFines == Plus(Sum(citizenFines), Sum(businessFines))
        totalPermits == Plus(Sum(citizenPermits), Sum(businessPermits))
        totalTaxes == Sum(citizenTaxes)
        growthFactor ==
            Plus(Num(1), Times(Over(in.config.economicGrowth, Num(100)),
                               Over(months, Num(12))))
    IN  [total |-> Times(Plus(Plus(totalFines, totalPermits), totalTaxes), growthFactor),
         fromFines |-> Times(totalFines, growthFactor),
         fromPermits |-> Times(totalPermits, growthFactor),
         fromTaxes |-> Times(totalTaxes, growthFactor),
         fromFees |-> Num(0),
         breakdown |->
            {<<"citizenFines", Times(Times(totalFines, Q(3, 10)), growthFactor)>>,
             <<"businessFines", Times(Times(totalFines, Q(7, 10)), growthFactor)>>}])

runnerCalculateCompliance(in) ==
    Once(runnerAggregateParameters(in.policies), LAMBDA params :
    LET citizens == in.citizenGroups
        businesses == in.businessCategories
        citizenAdjusted == [i \in DOMAIN citizens |->
            LET fineImpact ==
                    MathMin(Q(1, 10), Over(P(params, "fineAmount", Num(0)), Num(10000)))
                inspectionImpact ==
                    MathMin(Q(5, 100),
                            Over(P(params, "inspectionFrequency", Num(0)), Num(20)))
                permitImpact ==
                    Neg(MathMin(Q(2, 100),
                                Over(Minus(P(params, "permitDuration", Num(365)),
                                           Num(365)), Num(3650))))
            IN  MathMin(Num(1), MathMax(Num(0),
                    Plus(Plus(Plus(citizens[i].complianceRate, fineImpact),
                              inspectionImpact), permitImpact)))]
        businessAdjusted == [i \in DOMAIN businesses |->
            LET fineImpact ==
                    MathMin(Q(15, 100), Over(P(params, "fineAmount", Num(0)), Num(5000)))
                inspectionImpact ==
                    MathMin(Q(8, 100),
                            Over(P(params, "inspectionFrequency", Num(0)), Num(12)))
            IN  MathMin(Num(1), MathMax(Num(0),
                    Plus(Plus(businesses[i].complianceRate, fineImpact),
                         inspectionImpact)))]
        citizenCompliance ==
            WeightedAverage(citizenAdjusted,
                            [i \in DOMAIN citizens |-> citizens[i].population], Num(0))
        businessCompliance ==
            WeightedAverage(businessAdjusted,
                            [i \in DOMAIN businesses |-> businesses[i].count], Num(0))
    IN  [overall |-> Over(Plus(citizenCompliance, businessCompliance), Num(2)),
         citizen |-> citizenCompliance,
         business |-> businessCompliance,
         byCategory |-> <<>>])

runnerCalculateWorkload(in, results) ==
    Once(runnerAggregateParameters(in.policies), LAMBDA params :
    LET months == Horizon(in)
        inspectionRate == Over(P(params, "inspectionFrequency", Num(0)), Num(12))
        citizenInspections == [i \in DOMAIN in.citizenGroups |->
            Times(Times(Num(in.citizenGroups[i].population), inspectionRate), months)]
        businessInspections == [i \in DOMAIN in.businessCategories |->
            Times(Times(Times(Num(in.businessCategories[i].count), inspectionRate),
                        months), Num(2))]
        inspections == Plus(Sum(citizenInspections), Sum(businessInspections))
        totalPop == TotalPopulation(in)
        totalBiz == TotalBusinesses(in)
        permits ==
            Times(Times(Plus(Times(totalPop, Q(1, 10)), totalBiz),
                        Over(Num(12), Over(P(params, "permitDuration", Num(365)),
                                           Num(30)))),
                  Over(months, Num(12)))
        nonCompliantRate == Minus(Num(1), results.compliance.overall)
        appeals ==
            Times(Times(Times(Plus(totalPop, totalBiz), nonCompliantRate), Q(1, 10)),
                  Over(P(params, "fineAmount", Num(0)), Num(500)))
        totalHours ==
            Plus(Plus(Times(inspections, Num(2)), Times(permits, Q(1, 2))),
                 Times(appeals, Num(4)))
        staffRequired ==
            MathCeil(Over(totalHours, Times(Num(160), Over(months, Num(12)))))
    IN  [totalHours |-> totalHours,
         inspections |-> MathRound(inspections),
         permits |-> MathRound(permits),
         appeals |-> MathRound(appeals),
         staffRequired |-> staffRequired])

runnerCalculateSatisfaction(in) ==
    Once(runnerAggregateParameters(in.policies), LAMBDA params :
    LET base == Num(70)
        fineImpact == Neg(MathMin(Num(20), Over(P(params, "fineAmount", Num(0)), Num(50))))
        permitImpact ==
            MathMin(Num(10),
                    Over(Minus(P(params, "permitDuration", Num(365)), Num(180)), Num(50)))
        taxImpact == Neg(MathMin(Num(15), Over(P(params, "taxRate", Num(0)), Num(2))))
        graceImpact == MathMin(Num(5), Over(P(params, "gracePeriod", Num(0)), Num(10)))
        citizens == in.citizenGroups
        businesses == in.businessCategories
        citizenValues == [i \in DOMAIN citizens |->
            MathMin(Num(100), MathMax(Num(0),
                Plus(Plus(Plus(Plus(base, fineImpact), permitImpact), taxImpact),
                     graceImpact)))]
        businessValues == [i \in DOMAIN businesses |->
            MathMin(Num(100), MathMax(Num(0),
                Plus(Plus(Plus(base, Times(fineImpact, Q(1, 2))),
                          Times(permitImpact, Q(3, 2))),
                     Times(taxImpact, Q(12, 10)))))]
        citizenSat ==
            WeightedAverage(citizenValues,
                            [i \in DOMAIN citizens |-> citizens[i].population], base)
        businessSat ==
            WeightedAverage(businessValues,
                            [i \in DOMAIN businesses |-> businesses[i].count], base)
    IN  [overall |-> Over(Plus(citizenSat, businessSat), Num(2)),
         citizen |-> citizenSat,
         business |-> businessSat,
         byDemographic |-> <<>>])

runnerGenerateMonthlyProjections(in, results, seed) ==
    LET months == Horizon(in)
        seasonality == getSeasonalityFactors
    IN  results.monthlyProjections \o
        [month \in 1..in.config.timeHorizon |->
            LET factor == IF in.config.includeSeasonality
                          THEN ArrayAt(seasonality, month - 1) ELSE Num(1)
                growthFactor ==
                    Plus(Num(1), Times(Over(in.config.economicGrowth, Num(100)),
                                       Over(Num(month), Num(12))))
            IN  [month |-> month,
                 revenue |-> Times(Times(Over(results.revenue.total, months), factor),
                                   growthFactor),
                 compliance |->
                    Jitter(results.compliance.overall, RandomAt(seed, 2 * month - 1)),
                 workload |-> Times(Over(results.workload.totalHours, months), factor),
                 satisfaction |->
                    Jitter(results.satisfaction.overall, RandomAt(seed, 2 * month))]]

(***************************************************************************)
(* Inputs of the aggregation specification: contributions that set         *)
(* fineAmount to a number, a string or a boolean (or leave it out), with   *)
(* or without an override of it.                                           *)
(***************************************************************************)
MaxPolicies == 3

AggKey == "fineAmount"

AggValues ==
    {Undefined, JsNum(Num(100)), JsNum(Num(200)), JsNum(Num(300)),
     JsStr("high"), JsBool(TRUE)}

AggOverrideValues == {Undefined, JsNum(Num(500))}

Contribution(v, o) ==
    [parameters |-> [NoParams EXCEPT ![AggKey] = v],
     overrides |-> [NoParams EXCEPT ![AggKey] = o],
     hasOverrides |-> o.t # "undef"]

AggContributions == {Contribution(v, o) : v \in AggValues, o \in AggOverrideValues}

AggPolicyLists == UNION {[1..k -> AggContributions] : k \in 0..MaxPolicies}

NoConfig ==
    [timeHorizon |-> 1, includeSeasonality |-> FALSE,
     populationGrowth |-> Num(0), economicGrowth |-> Num(0)]

NotAggregated == [done |-> FALSE, lib |-> NoParams, runner |-> NoParams]

InitAgg ==
    /\ input \in {[policies |-> p, citizenGroups |-> <<>>,
                   businessCategories |-> <<>>, config |-> NoConfig] :
                  p \in AggPolicyLists}
    /\ heap = <<>>
    /\ libResults = 0
    /\ returned = <<>>
    /\ progress = <<>>
    /\ rng = 1
    /\ aggregated = NotAggregated
    /\ IdleComparators
    /\ IdleCache
    /\ IdleServer

\* a call of aggregateParameters() of each engine on the same policies
Aggregate ==
    /\ ~aggregated.done
    /\ aggregated' = [done |-> TRUE,
                      lib |-> aggregateParameters(input.policies),
                      runner |-> runnerAggregateParameters(input.policies)]
    /\ UNCHANGED <<input, heap, libResults, returned, progress, rng>>
    /\ UNCHANGED <<comparatorVars, cacheVars, serverVars>>

NextAgg == Aggregate

SpecAgg == InitAgg /\ [][NextAgg]_vars

(***************************************************************************)
(* Runs of the engines.  run() of either engine has no await in it, so a   *)
(* run is one step; the stages are composed in the order of the code.      *)
(***************************************************************************)
initializeResults ==
    [revenue |-> [total |-> Num(0), fromFines |-> Num(0), fromPermits |-> Num(0),
                  fromTaxes |-> Num(0), fromFees |-> Num(0), breakdown |-> {}],
     compliance |-> [overall |-> Num(0), citizen |-> Num(0), business |-> Num(0),
                     byCategory |-> <<>>],
     workload |-> [totalHours |-> Num(0), inspections |-> Num(0), permits |-> Num(0),
                   appeals |-> Num(0), staffRequired |-> Num(0)],
     satisfaction |-> [overall |-> Num(0), citizen |-> Num(0), business |-> Num(0),
                       byDemographic |-> <<>>],
     monthlyProjections |-> <<>>]

\* library run(): the five stages on this.results, which is then returned
run(in, results, random) ==
    Once([results EXCEPT !.revenue = calculateRevenue(in)], LAMBDA r1 :
    Once([r1 EXCEPT !.compliance = calculateCompliance(in)], LAMBDA r2 :
    Once([r2 EXCEPT !.workload = calculateWorkload(in, r2)], LAMBDA r3 :
    Once([r3 EXCEPT !.satisfaction = calculateSatisfaction(in)], LAMBDA r4 :
    [r4 EXCEPT !.monthlyProjections = generateMonthlyProjections(in, r4, random)]))))

\* (currentStep / totalSteps) * 100 after each of the five steps
runProgress == [currentStep \in 1..5 |-> (currentStep * 100) \div 5]

\* runner run(): the five stages on a new results object
runnerRun(in, random) ==
    Once([initializeResults EXCEPT !.revenue = runnerCalculateRevenue(in)], LAMBDA r1 :
    Once([r1 EXCEPT !.compliance = runnerCalculateCompliance(in)], LAMBDA r2 :
    Once([r2 EXCEPT !.workload = runnerCalculateWorkload(in, r2)], LAMBDA r3 :
    Once([r3 EXCEPT !.satisfaction = runnerCalculateSatisfaction(in)], LAMBDA r4 :
    [r4 EXCEPT !.monthlyProjections =
                runnerGenerateMonthlyProjections(in, r4, random)]))))

MaxRuns == 2

\* a call of run() on the library engine; the caller keeps the returned
\* reference
LibRun ==
    /\ Len(returned) < MaxRuns
    /\ \E result \in {run(input, heap[libResults], rng)} :
           /\ heap' = [heap EXCEPT ![libResults] = result]
           /\ returned' = Append(returned, [engine |-> "lib", ref |-> libResults,
                                            metrics |-> result])
    /\ progress' = Append(progress, runProgress)
    /\ rng' = RngAfter(rng, 2 * input.config.timeHorizon)
    /\ UNCHANGED <<input, libResults, aggregated, comparatorVars, cacheVars, serverVars>>

\* runSimulation: a new runner engine on the same data, and its run()
RunnerRun ==
    /\ Len(returned) < MaxRuns
    /\ \E result \in {runnerRun(input, rng)} :
           /\ heap' = Append(heap, result)
           /\ returned' = Append(returned, [engine |-> "runner", ref |-> Len(heap) + 1,
                                            metrics |-> result])
    /\ rng' = RngAfter(rng, 2 * input.config.timeHorizon)
    /\ UNCHANGED <<input, libResults, progress, aggregated, comparatorVars, cacheVars, serverVars>>

(***************************************************************************)
(* Inputs.  Numbers are exact rationals on TLC's 32-bit integers, so the   *)
(* inputs are chosen to keep numerators and denominators small: the        *)
(* specification Spec (repeated runs, projections with seasonality, growth *)
(* and jitter) runs on small populations, the specification SpecWide (one  *)
(* run of either engine) on wide parameters and populations without        *)
(* seasonality.                                                            *)
(***************************************************************************)
Params(fine, duration, frequency, tax, fee, grace) ==
    [fineAmount |-> JsNum(fine), permitDuration |-> JsNum(duration),
     inspectionFrequency |-> JsNum(frequency), taxRate |-> JsNum(tax),
     feeAmount |-> JsNum(fee), gracePeriod |-> JsNum(grace)]

Policy(parameters) ==
    [parameters |-> parameters, overrides |-> NoParams, hasOverrides |-> FALSE]

NoRules ==
    [incomeSensitivity |-> Undefined, policyAwareness |-> Undefined,
     averageRevenue |-> Undefined]

Demographics(income, eligibility) ==
    [averageIncome |-> income, permitEligibility |-> eligibility]

SeasonalityLength == 12

Config(months, seasonal, growth) ==
    [timeHorizon |-> months, includeSeasonality |-> seasonal,
     populationGrowth |-> Num(0), economicGrowth |-> growth]

MaxGroups == 2

ListsOf(S) == UNION {[1..k -> S] : k \in 0..MaxGroups}

\* --- Spec: small populations, every configuration ---
SmallPolicyLists ==
    {<<>>, <<Policy(Params(Num(100), Num(360), Num(5), Num(10), Num(10), Num(20)))>>}

SmallCitizenLists ==
    {<<>>,
     <<[population |-> 2, complianceRate |-> Num(1),
        demographics |-> Demographics(JsNum(Num(120)), JsNum(Q(1, 2))),
        behaviorRules |-> NoRules]>>}

SmallBusinessLists ==
    {<<>>,
     <<[count |-> 1, complianceRate |-> Num(1), sizeCategory |-> "medium",
        behaviorRules |-> [NoRules EXCEPT !.averageRevenue = JsNum(Num(600))]]>>}

ConfigSet ==
    {Config(months, seasonal, growth) :
        months \in {SeasonalityLength, SeasonalityLength + 1},
        seasonal \in BOOLEAN, growth \in {Num(0), Num(50)}}

Init ==
    /\ input \in [policies : SmallPolicyLists, citizenGroups : SmallCitizenLists,
                  businessCategories : SmallBusinessLists, config : ConfigSet]
    /\ heap = <<initializeResults>>
    /\ libResults = 1
    /\ returned = <<>>
    /\ progress = <<>>
    /\ rng \in DOMAIN RandomValues
    /\ aggregated = NotAggregated
    /\ IdleComparators
    /\ IdleCache
    /\ IdleServer

Next == LibRun \/ RunnerRun

Spec == Init /\ [][Next]_vars

\* --- SpecWide: parameters of either sign and any size, groups with and
\* without behaviour rules and demographics, one run ---
\* moderate parameters, the permit duration the engine's default, no grace
\* period
TypicalParameters ==
    [Params(Num(500), Num(365), Num(6), Num(5), Num(50), Num(0))
        EXCEPT !["gracePeriod"] = Undefined]

HighParameters == Params(Num(20000), Num(36500), Num(30), Num(50), Num(10), Num(100))

NegativeParameters ==
    Params(Num(-20000), Num(-3650), Num(-30), Num(-50), Num(-10), Num(-100))

WidePolicyLists ==
    {<<>>,
     <<Policy(TypicalParameters)>>,
     <<Policy(HighParameters)>>,
     <<Policy(NegativeParameters)>>,
     <<Policy(TypicalParameters),
       [parameters |-> HighParameters,
        overrides |-> [NoParams EXCEPT !["permitDuration"] = JsNum(Num(0))],
        hasOverrides |-> TRUE]>>}

WideCitizenGroupSet ==
    {[population |-> 10, complianceRate |-> Q(4, 5),
      demographics |-> Demographics(JsNum(Num(30000)), JsNum(Q(3, 10))),
      behaviorRules |-> NoRules],
     [population |-> 20, complianceRate |-> Num(1),
      demographics |-> Demographics(Undefined, Undefined),
      behaviorRules |-> [NoRules EXCEPT !.incomeSensitivity = JsNum(Num(-5)),
                                        !.policyAwareness = JsNum(Num(40))]],
     [population |-> 0, complianceRate |-> Num(0),
      demographics |-> Demographics(Undefined, Undefined),
      behaviorRules |-> NoRules]}

WideBusinessCategorySet ==
    {[count |-> 1, complianceRate |-> Num(1), sizeCategory |-> "small",
      behaviorRules |-> NoRules],
     [count |-> 2, complianceRate |-> Q(1, 2), sizeCategory |-> "large",
      behaviorRules |-> [NoRules EXCEPT !.policyAwareness = JsNum(Num(-3)),
                                        !.averageRevenue = JsNum(Num(600))]]}

WideConfigSet == {Config(SeasonalityLength, FALSE, Num(0)), Config(6, FALSE, Num(50))}

\* the scenario of the specification's testable properties: one citizen
\* group, no businesses, a horizon of one year without growth
ScenarioParameters ==
    [Params(Num(150), Num(365), Num(4), Q(5, 2), Num(50), Num(0))
        EXCEPT !["gracePeriod"] = Undefined]

ScenarioInput ==
    [policies |-> <<Policy(ScenarioParameters)>>,
     citizenGroups |->
        <<[population |-> 1000, complianceRate |-> Q(4, 5),
           demographics |-> Demographics(JsNum(Num(30000)), JsNum(Q(3, 10))),
           behaviorRules |-> NoRules]>>,
     businessCategories |-> <<>>,
     config |-> Config(SeasonalityLength, FALSE, Num(0))]

InitWide ==
    /\ input \in [policies : WidePolicyLists,
                  citizenGroups : ListsOf(WideCitizenGroupSet),
                  businessCategories : ListsOf(WideBusinessCategorySet),
                  config : WideConfigSet] \cup {ScenarioInput}
    /\ heap = <<initializeResults>>
    /\ libResults = 1
    /\ returned = <<>>
    /\ progress = <<>>
    /\ rng = 1
    /\ aggregated = NotAggregated
    /\ IdleComparators
    /\ IdleCache
    /\ IdleServer

\* one run, of the library engine or of the runner's
NextWide == returned = <<>> /\ (LibRun \/ RunnerRun)

SpecWide == InitWide /\ [][NextWide]_vars

(***************************************************************************)
(* Scenario comparison.  compareScenarios diffs the four top-level KPIs of *)
(* SimulationMetrics values; GET /api/comparisons/[id] and the comparison  *)
(* export diff the stored metric rows of the latest completed simulations  *)
(* by metric name.                                                         *)
(***************************************************************************)
\* baseline > 0 ? (delta / baseline) * 100 : 0
percentChange(delta, baseline) ==
    IF Gt(baseline, Num(0)) THEN Times(Over(delta, baseline), Num(100)) ELSE Num(0)

\* one element of scenarios.map(...)
scenarioResult(baseline, scenario) ==
    LET metrics == scenario.metrics
        revenueDelta == Minus(metrics.revenue.total, baseline.revenue.total)
        complianceDelta == Minus(metrics.compliance.overall, baseline.compliance.overall)
        workloadDelta == Minus(metrics.workload.totalHours, baseline.workload.totalHours)
        satisfactionDelta ==
            Minus(metrics.satisfaction.overall, baseline.satisfaction.overall)
    IN  [id |-> scenario.id,
         name |-> scenario.name,
         metrics |-> metrics,
         delta |-> [revenue |-> revenueDelta, compliance |-> complianceDelta,
                    workload |-> workloadDelta, satisfaction |-> satisfactionDelta],
         percentChange |->
            [revenue |-> percentChange(revenueDelta, baseline.revenue.total),
             compliance |-> percentChange(complianceDelta, baseline.compliance.overall),
             workload |-> percentChange(workloadDelta, baseline.workload.totalHours),
             satisfaction |->
                percentChange(satisfactionDelta, baseline.satisfaction.overall)]]

compareScenarios(baseline, scenarios) ==
    [baseline |-> baseline,
     scenarios |-> [i \in DOMAIN scenarios |-> scenarioResult(baseline, scenarios[i])]]

\* A mutant of metricPercentChange: the division without its guard.
metricPercentChangeUnguarded(deltaValue, value) ==
    Times(Over(deltaValue, value), Num(100))

\* bm.value !== 0 ? (deltaValue / bm.value) * 100 : 0
metricPercentChange(deltaValue, value) ==
    IF value # Num(0) THEN Times(Over(deltaValue, value), Num(100)) ELSE Num(0)

\* A mutant of flagIsPositive: a delta that is not negative counts as positive.
flagIsPositiveOrZero(polarity, deltaValue) ==
    IF polarity THEN Le(Num(0), deltaValue) ELSE Le(deltaValue, Num(0))

\* bm.isPositive ? deltaValue > 0 : deltaValue < 0
flagIsPositive(polarity, deltaValue) ==
    IF polarity THEN Gt(deltaValue, Num(0)) ELSE Lt(deltaValue, Num(0))

\* scenarioMetrics.find(m => m.name === name): the index of the first metric
\* of that name, 0 if there is none
findByName(scenarioMetrics, name) ==
    LET found == {j \in DOMAIN scenarioMetrics : scenarioMetrics[j].name = name}
    IN  IF found = {} THEN 0 ELSE CHOOSE j \in found : \A k \in found : j <= k

\* the object built for a baseline metric bm and its counterpart sm (route)
deltaRow(bm, sm) ==
    Once(Minus(sm.value, bm.value), LAMBDA deltaValue :
        [name |-> bm.name,
         displayName |-> bm.displayName,
         baseline |-> bm.value,
         scenario |-> sm.value,
         delta |-> deltaValue,
         percentChange |-> metricPercentChange(deltaValue, bm.value),
         isPositive |-> flagIsPositive(bm.isPositive, deltaValue)])

\* baselineMetrics.map(bm => ...).filter(Boolean) of the route
RECURSIVE deltaRowsFrom(_, _, _)
deltaRowsFrom(baselineMetrics, scenarioMetrics, i) ==
    IF i > Len(baselineMetrics) THEN <<>>
    ELSE Once(findByName(scenarioMetrics, baselineMetrics[i].name), LAMBDA j :
             (IF j = 0 THEN <<>>
              ELSE <<deltaRow(baselineMetrics[i], scenarioMetrics[j])>>)
             \o deltaRowsFrom(baselineMetrics, scenarioMetrics, i + 1))

\* the same row as the export builds it: with the unit of the baseline metric
exportDeltaRow(bm, sm) ==
    Once(Minus(sm.value, bm.value), LAMBDA deltaValue :
        [name |-> bm.name,
         displayName |-> bm.displayName,
         baseline |-> bm.value,
         scenario |-> sm.value,
         delta |-> deltaValue,
         percentChange |->
            IF bm.value # Num(0) THEN Times(Over(deltaValue, bm.value), Num(100))
            ELSE Num(0),
         unit |-> bm.unit,
         isPositive |-> IF bm.isPositive THEN Gt(deltaValue, Num(0))
                        ELSE Lt(deltaValue, Num(0))])

RECURSIVE exportDeltaRowsFrom(_, _, _)
exportDeltaRowsFrom(baselineMetrics, scenarioMetrics, i) ==
    IF i > Len(baselineMetrics) THEN <<>>
    ELSE Once(findByName(scenarioMetrics, baselineMetrics[i].name), LAMBDA j :
             (IF j = 0 THEN <<>>
              ELSE <<exportDeltaRow(baselineMetrics[i], scenarioMetrics[j])>>)
             \o exportDeltaRowsFrom(baselineMetrics, scenarioMetrics, i + 1))

NoResponse == [status |-> 0, hasMetrics |-> FALSE, scenarios |-> <<>>,
               baselineMetrics |-> <<>>]

\* GET /api/comparisons/[id]: 404 without the comparison; with
\* includeMetrics the deltas of every compared scenario against the baseline
getComparison(stored, includeMetrics) ==
    IF ~stored.exists THEN [NoResponse EXCEPT !.status = 404]
    ELSE IF ~includeMetrics THEN [NoResponse EXCEPT !.status = 200]
    ELSE [status |-> 200,
          hasMetrics |-> TRUE,
          scenarios |->
             [c \in DOMAIN stored.comparedScenarios |->
                 [id |-> stored.comparedScenarios[c].id,
                  name |-> stored.comparedScenarios[c].name,
                  metrics |-> stored.comparedScenarios[c].metrics,
                  delta |-> deltaRowsFrom(stored.baselineMetrics,
                                          stored.comparedScenarios[c].metrics, 1)]],
          baselineMetrics |-> stored.baselineMetrics]

\* exportComparison: 404 without the comparison, else the export data
exportComparison(stored) ==
    IF ~stored.exists THEN [NoResponse EXCEPT !.status = 404]
    ELSE [status |-> 200,
          hasMetrics |-> TRUE,
          scenarios |->
             [c \in DOMAIN stored.comparedScenarios |->
                 [name |-> stored.comparedScenarios[c].name,
                  metrics |-> stored.comparedScenarios[c].metrics,
                  delta |-> exportDeltaRowsFrom(stored.baselineMetrics,
                                                stored.comparedScenarios[c].metrics, 1)]],
          baselineMetrics |-> stored.baselineMetrics]

(***************************************************************************)
(* Comparisons: inputs, calls and the specification SpecCompare.           *)
(***************************************************************************)
\* a SimulationMetrics value with the given four top-level KPIs
Metrics(revenue, compliance, workload, satisfaction) ==
    [initializeResults EXCEPT !.revenue.total = revenue,
                              !.compliance.overall = compliance,
                              !.workload.totalHours = workload,
                              !.satisfaction.overall = satisfaction]

BaselineSet ==
    {Metrics(revenue, compliance, workload, satisfaction) :
        revenue \in {Num(-100), Num(0), Num(200)},
        compliance \in {Num(0), Q(1, 2)},
        workload \in {Num(0), Num(40)},
        satisfaction \in {Num(0), Num(70)}}

ScenarioMetricsSet ==
    {Metrics(Num(50), Q(1, 4), Num(10), Num(35)),
     Metrics(Num(300), Num(1), Num(80), Num(100)),
     Metrics(Num(0), Num(0), Num(0), Num(0))}

MaxScenarios == 1

ScenarioLists ==
    UNION {[1..k -> {[id |-> "s", name |-> "scenario", metrics |-> m] :
                        m \in ScenarioMetricsSet}] : k \in 0..MaxScenarios}

NotCompared(baseline, scenarios) ==
    [baseline |-> baseline, scenarios |-> scenarios, called |-> FALSE,
     result |-> [baseline |-> baseline, scenarios |-> <<>>]]

\* a row of the stored metrics of a simulation
Metric(name, value, isPositive) ==
    [name |-> name, displayName |-> name, value |-> value, unit |-> "",
     isPositive |-> isPositive]

BaselineMetricSet ==
    {Metric("revenue", Num(0), TRUE), Metric("revenue", Num(100), TRUE),
     Metric("workload", Num(0), FALSE), Metric("workload", Num(100), FALSE)}

MaxMetrics == 2

BaselineMetricLists == UNION {[1..k -> BaselineMetricSet] : k \in 0..MaxMetrics}

\* metric lists of a compared scenario: none, matching names, a name listed
\* twice, a name the baseline does not have
ScenarioMetricLists ==
    {<<>>,
     <<Metric("revenue", Num(100), TRUE)>>,
     <<Metric("revenue", Num(200), TRUE), Metric("workload", Num(50), FALSE)>>,
     <<Metric("workload", Num(100), FALSE), Metric("workload", Num(0), FALSE)>>,
     <<Metric("workload", Num(150), FALSE), Metric("revenue", Num(0), TRUE)>>,
     <<Metric("compliance", Num(1), TRUE), Metric("revenue", Num(100), TRUE)>>}

ComparedScenarioLists ==
    UNION {[1..k -> {[id |-> "s", name |-> "scenario", metrics |-> m] :
                        m \in ScenarioMetricLists}] : k \in 0..MaxScenarios}

StoredComparison(exists, baselineMetrics, comparedScenarios) ==
    [exists |-> exists, baselineMetrics |-> baselineMetrics,
     comparedScenarios |-> comparedScenarios,
     response |-> NoResponse, exported |-> NoResponse, exportJobs |-> 0]

InitCompare ==
    /\ IdleEngine
    /\ IdleCache
    /\ IdleServer
    /\ \/ /\ compared \in {NotCompared(b, l) : b \in BaselineSet, l \in ScenarioLists}
          /\ metricComparison = StoredComparison(FALSE, <<>>, <<>>)
       \/ /\ compared =
                NotCompared(Metrics(Num(0), Q(1, 2), Num(0), Num(70)),
                            <<[id |-> "s", name |-> "scenario",
                               metrics |-> Metrics(Num(50), Q(1, 4), Num(10), Num(35))]>>)
          /\ metricComparison \in
                {StoredComparison(TRUE, b, c) :
                    b \in BaselineMetricLists, c \in ComparedScenarioLists}

\* a call of compareScenarios(baseline, scenarios)
CompareScenarios ==
    /\ compared' = [compared EXCEPT
                       !.called = TRUE,
                       !.result = compareScenarios(compared.baseline, compared.scenarios)]
    /\ UNCHANGED <<engineVars, metricComparison, cacheVars, serverVars>>

\* GET /api/comparisons/[id], with or without includeMetrics=true
GetComparison ==
    /\ \E includeMetrics \in BOOLEAN :
           metricComparison' =
               [metricComparison EXCEPT
                   !.response = getComparison(metricComparison, includeMetrics)]
    /\ UNCHANGED <<engineVars, compared, cacheVars, serverVars>>

MaxExports == 1

\* POST /api/export with type 'comparison': the export data, and an export
\* job row when the comparison exists
ExportComparison ==
    /\ metricComparison.exportJobs < MaxExports
    /\ metricComparison' =
           [metricComparison EXCEPT
               !.exported = exportComparison(metricComparison),
               !.exportJobs = IF metricComparison.exists THEN @ + 1 ELSE @]
    /\ UNCHANGED <<engineVars, compared, cacheVars, serverVars>>

NextCompare == CompareScenarios \/ GetComparison \/ ExportComparison

SpecCompare == InitCompare /\ [][NextCompare]_vars

(***************************************************************************)
(* The in-memory cache (lib/cache): a Map from key to entry, a Map from    *)
(* tag to the Set of keys stored with it, and the hit and miss counters.   *)
(* A Map is a function on the keys it holds.  An entry is its value, its   *)
(* tags and expiresAt, 0 standing for null (both are falsy where the code  *)
(* tests them); createdAt is written by set and read nowhere, so the       *)
(* entries leave it out.  Every operation takes the store and returns the  *)
(* store after the call together with what the call returns.               *)
(***************************************************************************)
EmptyMap == [x \in {} |-> {}]

With(map, k, v) == [x \in DOMAIN map \cup {k} |-> IF x = k THEN v ELSE map[x]]

Without(map, k) == [x \in DOMAIN map \ {k} |-> map[x]]

EmptyStore ==
    [cache |-> EmptyMap, tagIndex |-> EmptyMap, stats |-> [hits |-> 0, misses |-> 0]]

\* A mutant of isExpired: an entry expires at its deadline, not after it.
isExpiredAtDeadline(entry, time) == entry.expiresAt # 0 /\ time >= entry.expiresAt

\* entry.expiresAt && Date.now() > entry.expiresAt
isExpired(entry, time) == entry.expiresAt # 0 /\ time > entry.expiresAt

\* delete(key): the key leaves the key set of each tag of its entry, a tag
\* whose key set becomes empty leaves the index, the entry leaves the cache
delete(store, k) ==
    IF k \notin DOMAIN store.cache THEN [store |-> store, result |-> FALSE]
    ELSE LET entryTags == store.cache[k].tags
             emptied == {t \in DOMAIN store.tagIndex :
                            t \in entryTags /\ store.tagIndex[t] \ {k} = {}}
         IN  [store |->
                 [store EXCEPT
                     !.tagIndex = [t \in DOMAIN store.tagIndex \ emptied |->
                                      IF t \in entryTags THEN store.tagIndex[t] \ {k}
                                      ELSE store.tagIndex[t]],
                     !.cache = Without(store.cache, k)],
              result |-> TRUE]

\* A mutant of set: the old entry of the key is overwritten without delete,
\* so the key stays listed under the tags of the old entry.
setKeepingOldTags(store, k, v, tagList, ttl, time) ==
    LET tagSet == {tagList[i] : i \in DOMAIN tagList}
        expiresAt == IF ttl # 0 THEN time + ttl ELSE 0
    IN  [store EXCEPT
            !.cache = With(store.cache, k,
                           [value |-> v, tags |-> tagSet, expiresAt |-> expiresAt]),
            !.tagIndex =
                [t \in DOMAIN store.tagIndex \cup tagSet |->
                    (IF t \in DOMAIN store.tagIndex THEN store.tagIndex[t] ELSE {})
                    \cup (IF t \in tagSet THEN {k} ELSE {})]]

\* set(key, value, {tags, ttl}) at time Date.now()
set(store, k, v, tagList, ttl, time) ==
    LET tagSet == {tagList[i] : i \in DOMAIN tagList}
        expiresAt == IF ttl # 0 THEN time + ttl ELSE 0
    IN  Once(IF k \in DOMAIN store.cache THEN delete(store, k).store ELSE store,
             LAMBDA cleared :
                [cleared EXCEPT
                    !.cache = With(cleared.cache, k,
                                   [value |-> v, tags |-> tagSet, expiresAt |-> expiresAt]),
                    !.tagIndex =
                        [t \in DOMAIN cleared.tagIndex \cup tagSet |->
                            (IF t \in DOMAIN cleared.tagIndex THEN cleared.tagIndex[t]
                             ELSE {})
                            \cup (IF t \in tagSet THEN {k} ELSE {})]])

NoValue == "null"

\* get(key): null and a miss for an absent or expired entry (the expired
\* entry is deleted), else the value and a hit
get(store, k, time) ==
    IF k \notin DOMAIN store.cache
    THEN [store |-> [store EXCEPT !.stats.misses = @ + 1], hit |-> FALSE,
          value |-> NoValue]
    ELSE IF isExpired(store.cache[k], time)
    THEN [store |-> [delete(store, k).store EXCEPT !.stats.misses = @ + 1],
          hit |-> FALSE, value |-> NoValue]
    ELSE [store |-> [store EXCEPT !.stats.hits = @ + 1], hit |-> TRUE,
          value |-> store.cache[k].value]

\* has(key): like get, without the counters
has(store, k, time) ==
    IF k \notin DOMAIN store.cache THEN [store |-> store, result |-> FALSE]
    ELSE IF isExpired(store.cache[k], time)
    THEN [store |-> delete(store, k).store, result |-> FALSE]
    ELSE [store |-> store, result |-> TRUE]

\* the for-of loop of invalidateTag over the key Set of the tag: the Set is
\* iterated while delete(key) removes keys from it, so each turn takes a key
\* that is in the Set now and has not been visited
RECURSIVE invalidateLoop(_, _, _, _)
invalidateLoop(store, tag, visited, count) ==
    LET live == IF tag \in DOMAIN store.tagIndex THEN store.tagIndex[tag] ELSE {}
    IN  IF live \ visited = {} THEN [store |-> store, result |-> count]
        ELSE Once2(CHOOSE k \in live \ visited : TRUE, store,
                   LAMBDA k, before :
                       Once(delete(before, k), LAMBDA deleted :
                           invalidateLoop(deleted.store, tag, visited \cup {k},
                                          IF deleted.result THEN count + 1 ELSE count)))

\* A mutant of invalidateTag: the loop ends after the first key, as an
\* iteration that does not survive the removal of its current element would.
invalidateTagFirstKeyOnly(store, tag) ==
    IF tag \notin DOMAIN store.tagIndex THEN [store |-> store, result |-> 0]
    ELSE Once(delete(store, CHOOSE k \in store.tagIndex[tag] : TRUE), LAMBDA deleted :
             [store |-> deleted.store, result |-> IF deleted.result THEN 1 ELSE 0])

\* invalidateTag(tag)
invalidateTag(store, tag) ==
    IF tag \notin DOMAIN store.tagIndex THEN [store |-> store, result |-> 0]
    ELSE invalidateLoop(store, tag, {}, 0)

\* invalidateTags(tags): the sum of invalidateTag over the list, in order
RECURSIVE invalidateTags(_, _)
invalidateTags(store, tagList) ==
    IF tagList = <<>> THEN [store |-> store, result |-> 0]
    ELSE Once(invalidateTag(store, Head(tagList)), LAMBDA first :
             Once(invalidateTags(first.store, Tail(tagList)), LAMBDA rest :
                 [store |-> rest.store, result |-> first.result + rest.result]))

\* cleanup() at time Date.now(): every expired entry is deleted and counted
RECURSIVE cleanupLoop(_, _, _, _)
cleanupLoop(store, visited, time, count) ==
    IF DOMAIN store.cache \ visited = {} THEN [store |-> store, result |-> count]
    ELSE Once2(CHOOSE k \in DOMAIN store.cache \ visited : TRUE, store,
               LAMBDA k, before :
                   IF isExpired(before.cache[k], time)
                   THEN cleanupLoop(delete(before, k).store, visited \cup {k}, time,
                                    count + 1)
                   ELSE cleanupLoop(before, visited \cup {k}, time, count))

cleanup(store, time) == cleanupLoop(store, {}, time, 0)

\* clear(): both maps emptied, the counters back to 0
clear(store) == EmptyStore

(***************************************************************************)
(* The cache under calls: the specification SpecCache.                     *)
(***************************************************************************)
Keys == {"k1", "k2"}

Tags == {"t1", "t2"}

Values == {"v1", "v2"}

\* the argument of invalidateTags: no tag, one, two, one tag twice
TagLists == {<<>>, <<"t1">>, <<"t2">>, <<"t1", "t2">>, <<"t1", "t1">>}

\* options.tags of a set call
SetTagLists == {<<>>, <<"t1">>, <<"t2">>, <<"t1", "t2">>}

\* options.ttl of a set call: absent (0 reads the same) or one tick
TtlSet == {0, 1}

MaxTime == 3

MaxLookups == 1

\* the cache object as the operations take it
Store == [cache |-> cache, tagIndex |-> tagIndex, stats |-> stats]

\* the call that returned last: its name, its arguments, what it returned,
\* the tag sets of the entries it removed, and for set the ttl option and
\* the tags of the old entry of the key that the new entry does not have
Call(op, k, tagList, result, hit, v) ==
    [op |-> op, key |-> k, tags |-> tagList, result |-> result, hit |-> hit,
     value |-> v, removed |-> {}, unlisted |-> {}, ttl |-> 0]

\* the tag sets of the entries of the cache that the store no longer holds
RemovedTags(store) == {cache[k].tags : k \in DOMAIN cache \ DOMAIN store.cache}

InitCache ==
    /\ IdleEngine
    /\ IdleComparators
    /\ IdleServer
    /\ cache = EmptyStore.cache
    /\ tagIndex = EmptyStore.tagIndex
    /\ stats = EmptyStore.stats
    /\ now = 1
    /\ cacheCall = Call("none", "", <<>>, 0, FALSE, NoValue)

\* the store a call leaves behind
Becomes(store) ==
    /\ cache' = store.cache
    /\ tagIndex' = store.tagIndex
    /\ stats' = store.stats
    /\ UNCHANGED <<engineVars, comparatorVars, serverVars, now>>

Set ==
    \E k \in Keys, v \in Values, tagList \in SetTagLists, ttl \in TtlSet :
        /\ Becomes(set(Store, k, v, tagList, ttl, now))
        /\ cacheCall' =
               [Call("set", k, tagList, 0, FALSE, NoValue)
                   EXCEPT !.unlisted =
                              IF k \in DOMAIN cache
                              THEN cache[k].tags \ {tagList[i] : i \in DOMAIN tagList}
                              ELSE {},
                          !.ttl = ttl]

Get ==
    /\ stats.hits + stats.misses < MaxLookups
    /\ \E k \in Keys :
           \E got \in {get(Store, k, now)} :
               /\ Becomes(got.store)
               /\ cacheCall' = [Call("get", k, <<>>, 0, got.hit, got.value)
                                    EXCEPT !.removed = RemovedTags(got.store)]

Has ==
    \E k \in Keys :
        \E had \in {has(Store, k, now)} :
            /\ Becomes(had.store)
            /\ cacheCall' = [Call("has", k, <<>>, 0, had.result, NoValue)
                                 EXCEPT !.removed = RemovedTags(had.store)]

Delete ==
    \E k \in Keys :
        \E deleted \in {delete(Store, k)} :
            /\ Becomes(deleted.store)
            /\ cacheCall' = Call("delete", k, <<>>, 0, deleted.result, NoValue)

InvalidateTag ==
    \E tag \in Tags :
        \E invalidated \in {invalidateTag(Store, tag)} :
            /\ Becomes(invalidated.store)
            /\ cacheCall' =
                   [Call("invalidateTag", "", <<tag>>, invalidated.result, FALSE, NoValue)
                       EXCEPT !.removed = RemovedTags(invalidated.store)]

InvalidateTags ==
    \E tagList \in TagLists :
        \E invalidated \in {invalidateTags(Store, tagList)} :
            /\ Becomes(invalidated.store)
            /\ cacheCall' =
                   [Call("invalidateTags", "", tagList, invalidated.result, FALSE, NoValue)
                       EXCEPT !.removed = RemovedTags(invalidated.store)]

Cleanup ==
    \E cleaned \in {cleanup(Store, now)} :
        /\ Becomes(cleaned.store)
        /\ cacheCall' = [Call("cleanup", "", <<>>, cleaned.result, FALSE, NoValue)
                             EXCEPT !.removed = RemovedTags(cleaned.store)]

Clear ==
    /\ Becomes(clear(Store))
    /\ cacheCall' = Call("clear", "", <<>>, 0, FALSE, NoValue)

\* Date.now() advances between calls
Tick ==
    /\ now < MaxTime
    /\ now' = now + 1
    /\ UNCHANGED <<engineVars, comparatorVars, serverVars, cache, tagIndex, stats,
                   cacheCall>>

NextCache ==
    \/ Set
    \/ Get
    \/ Has
    \/ Delete
    \/ InvalidateTag
    \/ InvalidateTags
    \/ Cleanup
    \/ Clear
    \/ Tick

SpecCache == InitCache /\ [][NextCache]_vars

(***************************************************************************)
(* run() stage by stage: the specification SpecStages.  The library run()  *)
(* works on this.results and calls the optional progress callback after    *)
(* each stage; the runner's run() works on a new results object and has no *)
(* callback.                                                               *)
(***************************************************************************)
\* A mutant of runOrder: the workload stage before the compliance stage.
runOrderWorkloadFirst ==
    <<"revenue", "workload", "compliance", "satisfaction", "projections">>

\* the stage calls of run(), in program order
runOrder == <<"revenue", "compliance", "workload", "satisfaction", "projections">>

totalSteps == Len(runOrder)

\* the results after a stage of run() has assigned its section
applyStage(name, results, section) ==
    CASE name = "revenue" -> [results EXCEPT !.revenue = section]
      [] name = "compliance" -> [results EXCEPT !.compliance = section]
      [] name = "workload" -> [results EXCEPT !.workload = section]
      [] name = "satisfaction" -> [results EXCEPT !.satisfaction = section]
      [] name = "projections" -> [results EXCEPT !.monthlyProjections = section]

\* a call of run() that has not executed anything yet: the results object it
\* works on, and whether the caller passed a progress callback
NewRun(engine, results, hasCallback, runs) ==
    [engine |-> engine, hasCallback |-> hasCallback, runs |-> runs,
     start |-> results, seed |-> 0, results |-> results,
     currentStep |-> 0, next |-> "stage", order |-> <<>>, calls |-> <<>>,
     finished |-> FALSE]

StageInputs ==
    [policies : SmallPolicyLists, citizenGroups : SmallCitizenLists,
     businessCategories : SmallBusinessLists,
     config : {Config(SeasonalityLength, FALSE, Num(0))}]

InitStages ==
    /\ input \in StageInputs
    /\ heap = <<>>
    /\ libResults = 0
    /\ returned = <<>>
    /\ progress = <<>>
    /\ rng = 1
    /\ aggregated = <<>>
    /\ IdleComparators
    /\ IdleCache
    /\ db = <<>>
    /\ requests = <<>>
    /\ stageRun \in {NewRun("lib", initializeResults, hasCallback, 1) :
                        hasCallback \in BOOLEAN}
                    \cup {NewRun("runner", initializeResults, FALSE, 1)}

\* the next stage call of run(), and currentStep++ in the library
Stage(name, section) ==
    /\ \E result \in {applyStage(name, stageRun.results, section)} :
           stageRun' = [stageRun EXCEPT
                           !.results = result,
                           !.currentStep = @ + 1,
                           !.order = Append(@, name),
                           !.seed = IF name = "projections" THEN rng ELSE @,
                           !.next = IF stageRun.engine = "lib" THEN "callback"
                                    ELSE "stage"]
    /\ rng' = IF name = "projections"
              THEN RngAfter(rng, 2 * input.config.timeHorizon) ELSE rng
    /\ UNCHANGED <<input, heap, libResults, returned, progress, aggregated>>
    /\ UNCHANGED <<comparatorVars, cacheVars, db, requests>>

StageRevenue ==
    /\ stageRun.next = "stage"
    /\ stageRun.currentStep < totalSteps
    /\ runOrder[stageRun.currentStep + 1] = "revenue"
    /\ Stage("revenue", IF stageRun.engine = "lib" THEN calculateRevenue(input)
                          ELSE runnerCalculateRevenue(input))

StageCompliance ==
    /\ stageRun.next = "stage"
    /\ stageRun.currentStep < totalSteps
    /\ runOrder[stageRun.currentStep + 1] = "compliance"
    /\ Stage("compliance", IF stageRun.engine = "lib" THEN calculateCompliance(input)
                             ELSE runnerCalculateCompliance(input))

StageWorkload ==
    /\ stageRun.next = "stage"
    /\ stageRun.currentStep < totalSteps
    /\ runOrder[stageRun.currentStep + 1] = "workload"
    /\ Stage("workload", IF stageRun.engine = "lib" THEN calculateWorkload(input, stageRun.results)
                           ELSE runnerCalculateWorkload(input, stageRun.results))

StageSatisfaction ==
    /\ stageRun.next = "stage"
    /\ stageRun.currentStep < totalSteps
    /\ runOrder[stageRun.currentStep + 1] = "satisfaction"
    /\ Stage("satisfaction", IF stageRun.engine = "lib" THEN calculateSatisfaction(input)
                               ELSE runnerCalculateSatisfaction(input))

StageProjections ==
    /\ stageRun.next = "stage"
    /\ stageRun.currentStep < totalSteps
    /\ runOrder[stageRun.currentStep + 1] = "projections"
    /\ Stage("projections", IF stageRun.engine = "lib" THEN generateMonthlyProjections(input, stageRun.results, rng)
                              ELSE runnerGenerateMonthlyProjections(input, stageRun.results, rng))

\* progressCallback?.((currentStep / totalSteps) * 100): the callback sees
\* this.results as the stages have left it
ProgressCallback ==
    /\ stageRun.next = "callback"
    /\ stageRun' =
           [stageRun EXCEPT
               !.next = "stage",
               !.calls =
                   IF stageRun.hasCallback
                   THEN Append(@, [value |-> Times(Over(Num(stageRun.currentStep),
                                                        Num(totalSteps)), Num(100)),
                                   results |-> stageRun.results])
                   ELSE @]
    /\ UNCHANGED <<engineVars, comparatorVars, cacheVars, db, requests>>

\* return this.results
Return ==
    /\ stageRun.next = "stage"
    /\ stageRun.currentStep = totalSteps
    /\ ~stageRun.finished
    /\ stageRun' = [stageRun EXCEPT !.finished = TRUE]
    /\ UNCHANGED <<engineVars, comparatorVars, cacheVars, db, requests>>

MaxStageRuns == 2

\* run() is called again: on the same engine and this.results in the
\* library, on a new engine in the runner
RunAgain ==
    /\ stageRun.finished
    /\ stageRun.runs < MaxStageRuns
    /\ stageRun' = NewRun(stageRun.engine,
                          IF stageRun.engine = "lib" THEN stageRun.results
                          ELSE initializeResults,
                          stageRun.hasCallback, stageRun.runs + 1)
    /\ UNCHANGED <<engineVars, comparatorVars, cacheVars, db, requests>>

NextStages ==
    \/ StageRevenue
    \/ StageCompliance
    \/ StageWorkload
    \/ StageSatisfaction
    \/ StageProjections
    \/ ProgressCallback
    \/ Return
    \/ RunAgain

SpecStages == InitStages /\ [][NextStages]_vars

(***************************************************************************)
(* The route handlers.  A handler runs from one await to the next without  *)
(* interruption; at an await on the database another request may run.  A   *)
(* request is a record with the place it has reached (pc), its body, what  *)
(* it has read so far and its response.  The handlers share the database   *)
(* and the cache object of lib/cache.                                      *)
(***************************************************************************)
\* the fields of the cache after a synchronous call on it
CacheBecomes(store) ==
    /\ cache' = store.cache
    /\ tagIndex' = store.tagIndex
    /\ stats' = store.stats
    /\ UNCHANGED <<now, cacheCall>>

\* requests[i] moves on
Moves(i, request) == requests' = [requests EXCEPT ![i] = request]

MaxRequests == 2

(***************************************************************************)
(* /api/policies/[id]: GET and PUT of one policy, the specification        *)
(* SpecPolicy.  The row of the policy is its updatable data, a version its *)
(* number, parameters and isActive flag.                                   *)
(***************************************************************************)
PolicyKey == "policy:p1"

PolicyTag == "policy:p1"

TenantTag == "tenant:t1"

AllPoliciesTag == "all:policies"

PolicyTtl == 300000

NoPolicy == [data |-> "", versions |-> <<>>]

NoBody == [data |-> "", parameters |-> ""]

\* db.policy.findUnique({include: {versions}}): the row and its versions
findPolicy == [data |-> db.policy.data, versions |-> db.versions]

\* findFirst({where: {policyId}, orderBy: {version: 'desc'}})?.version || 0
latestVersion ==
    IF db.versions = <<>> THEN 0
    ELSE CHOOSE v \in {db.versions[j].version : j \in DOMAIN db.versions} :
             \A j \in DOMAIN db.versions : db.versions[j].version <= v

\* updateMany({where: {policyId, isActive: true}, data: {isActive: false}})
deactivated(versions) ==
    [j \in DOMAIN versions |-> [versions[j] EXCEPT !.isActive = FALSE]]

PolicyRequest(kind, pc, body) ==
    [kind |-> kind, pc |-> pc, body |-> body, policy |-> NoPolicy, latest |-> 0,
     status |-> 0, payload |-> NoPolicy]

\* the state after POST /api/policies: the policy with its first version,
\* active; nothing cached
InitPolicy ==
    /\ IdleEngine
    /\ IdleComparators
    /\ stageRun = <<>>
    /\ cache = EmptyStore.cache
    /\ tagIndex = EmptyStore.tagIndex
    /\ stats = EmptyStore.stats
    /\ now = 1
    /\ cacheCall = <<>>
    /\ db = [policy |-> [data |-> "a"],
             versions |-> <<[version |-> 1, parameters |-> "p0", isActive |-> TRUE]>>]
    /\ requests = <<>>

PolicyFrame == UNCHANGED <<engineVars, comparatorVars, stageRun>>

\* a GET /api/policies/p1 arrives
StartGet ==
    /\ Len(requests) < MaxRequests
    /\ requests' = Append(requests, PolicyRequest("get", "lookup", NoBody))
    /\ UNCHANGED <<db, cacheVars>>
    /\ PolicyFrame

\* GET: cache.get(cacheKey); a hit is the response
GetLookup ==
    \E i \in DOMAIN requests :
    /\ requests[i].kind = "get" /\ requests[i].pc = "lookup"
    /\ \E got \in {get(Store, PolicyKey, now)} :
           /\ CacheBecomes(got.store)
           /\ Moves(i, IF got.hit
                       THEN [requests[i] EXCEPT !.pc = "done", !.status = 200,
                                                !.payload = got.value]
                       ELSE [requests[i] EXCEPT !.pc = "find"])
    /\ UNCHANGED db
    /\ PolicyFrame

\* GET: await db.policy.findUnique(...)
GetFind ==
    \E i \in DOMAIN requests :
    /\ requests[i].kind = "get" /\ requests[i].pc = "find"
    /\ Moves(i, [requests[i] EXCEPT !.pc = "store", !.policy = findPolicy])
    /\ UNCHANGED <<db, cacheVars>>
    /\ PolicyFrame

\* GET: cache.set(cacheKey, policy, {tags, ttl}) and the response
GetStore ==
    \E i \in DOMAIN requests :
    /\ requests[i].kind = "get" /\ requests[i].pc = "store"
    /\ CacheBecomes(set(Store, PolicyKey, requests[i].policy, <<PolicyTag, TenantTag>>,
                        PolicyTtl, now))
    /\ Moves(i, [requests[i] EXCEPT !.pc = "done", !.status = 200,
                                    !.payload = requests[i].policy])
    /\ UNCHANGED db
    /\ PolicyFrame

\* a PUT /api/policies/p1 arrives, with or without parameters
StartPut ==
    /\ Len(requests) < MaxRequests
    /\ \E data \in {"b", "c"}, parameters \in {"", "p1"} :
           requests' = Append(requests,
                              PolicyRequest("put", "update",
                                            [data |-> data, parameters |-> parameters]))
    /\ UNCHANGED <<db, cacheVars>>
    /\ PolicyFrame

\* PUT: await db.policy.update(...)
PutUpdate ==
    \E i \in DOMAIN requests :
    /\ requests[i].kind = "put" /\ requests[i].pc = "update"
    /\ db' = [db EXCEPT !.policy.data = requests[i].body.data]
    /\ Moves(i, [requests[i] EXCEPT
                    !.pc = IF requests[i].body.parameters # "" THEN "findLatest"
                           ELSE "invalidate"])
    /\ UNCHANGED cacheVars
    /\ PolicyFrame

\* PUT: await db.policyVersion.findFirst(...)
PutFindLatest ==
    \E i \in DOMAIN requests :
    /\ requests[i].kind = "put" /\ requests[i].pc = "findLatest"
    /\ Moves(i, [requests[i] EXCEPT !.pc = "create", !.latest = latestVersion])
    /\ UNCHANGED <<db, cacheVars>>
    /\ PolicyFrame

\* PUT: await db.policyVersion.create(...)
PutCreate ==
    \E i \in DOMAIN requests :
    /\ requests[i].kind = "put" /\ requests[i].pc = "create"
    /\ db' = [db EXCEPT !.versions =
                 Append(@, [version |-> requests[i].latest + 1,
                            parameters |-> requests[i].body.parameters,
                            isActive |-> TRUE])]
    /\ Moves(i, [requests[i] EXCEPT !.pc = "deactivate"])
    /\ UNCHANGED cacheVars
    /\ PolicyFrame

\* PUT: await db.policyVersion.updateMany(...)
PutDeactivate ==
    \E i \in DOMAIN requests :
    /\ requests[i].kind = "put" /\ requests[i].pc = "deactivate"
    /\ db' = [db EXCEPT !.versions = deactivated(@)]
    /\ Moves(i, [requests[i] EXCEPT !.pc = "invalidate"])
    /\ UNCHANGED cacheVars
    /\ PolicyFrame

\* PUT: the three invalidateTag calls, cache.delete and the response
PutInvalidate ==
    \E i \in DOMAIN requests :
    /\ requests[i].kind = "put" /\ requests[i].pc = "invalidate"
    /\ CacheBecomes(
           delete(invalidateTags(Store, <<PolicyTag, TenantTag, AllPoliciesTag>>).store,
                  PolicyKey).store)
    /\ Moves(i, [requests[i] EXCEPT !.pc = "done", !.status = 200])
    /\ UNCHANGED db
    /\ PolicyFrame

NextPolicy ==
    \/ StartGet
    \/ StartPut
    \/ GetLookup
    \/ GetFind
    \/ GetStore
    \/ PutUpdate
    \/ PutFindLatest
    \/ PutCreate
    \/ PutDeactivate
    \/ PutInvalidate

SpecPolicy == InitPolicy /\ [][NextPolicy]_vars

(***************************************************************************)
(* /api/simulations/[id]: DELETE, and GET of the results, of one stored    *)
(* simulation: the specification SpecResults.  A results payload is the    *)
(* simulation with its metrics, and with includeDetails the detailed       *)
(* results and the monthly projections.                                    *)
(***************************************************************************)
ResultsKey == "simulation:s1:results"

SimulationTag == "simulation:s1"

ResultsTtl == 600000

NoPayload == [simulation |-> "", detailedResults |-> FALSE, monthlyProjections |-> FALSE]

ResultsRequest(kind, pc, includeDetails, afterDelete) ==
    [kind |-> kind, pc |-> pc, includeDetails |-> includeDetails,
     afterDelete |-> afterDelete, found |-> FALSE, results |-> NoPayload,
     status |-> 0, payload |-> NoPayload]

\* a DELETE of the simulation has been answered with success
Deleted ==
    \E i \in DOMAIN requests :
        requests[i].kind = "delete" /\ requests[i].pc = "done" /\ requests[i].status = 200

\* a simulation that a run has stored, finished or still running
InitResults ==
    /\ IdleEngine
    /\ IdleComparators
    /\ stageRun = <<>>
    /\ cache = EmptyStore.cache
    /\ tagIndex = EmptyStore.tagIndex
    /\ stats = EmptyStore.stats
    /\ now = 1
    /\ cacheCall = <<>>
    /\ db \in {[simulation |-> [exists |-> TRUE, status |-> status]] :
                  status \in {"completed", "running"}}
    /\ requests = <<>>

MaxGets == 2

\* a GET /api/simulations/s1/results arrives, with or without
\* includeDetails=true
StartResults ==
    /\ Cardinality({i \in DOMAIN requests : requests[i].kind = "results"}) < MaxGets
    /\ \E includeDetails \in BOOLEAN :
           requests' = Append(requests,
                              ResultsRequest("results", "lookup", includeDetails, Deleted))
    /\ UNCHANGED <<db, cacheVars>>
    /\ PolicyFrame

\* results: cache.get(cacheKey); a hit is the response
ResultsLookup ==
    \E i \in DOMAIN requests :
    /\ requests[i].kind = "results" /\ requests[i].pc = "lookup"
    /\ \E got \in {get(Store, ResultsKey, now)} :
           /\ CacheBecomes(got.store)
           /\ Moves(i, IF got.hit
                       THEN [requests[i] EXCEPT !.pc = "done", !.status = 200,
                                                !.payload = got.value]
                       ELSE [requests[i] EXCEPT !.pc = "find"])
    /\ UNCHANGED db
    /\ PolicyFrame

\* results: await db.simulation.findUnique(...); 404 without the row, else
\* the payload of the simulation and its metrics
ResultsFind ==
    \E i \in DOMAIN requests :
    /\ requests[i].kind = "results" /\ requests[i].pc = "find"
    /\ Moves(i, IF ~db.simulation.exists
                THEN [requests[i] EXCEPT !.pc = "done", !.status = 404]
                ELSE [requests[i] EXCEPT
                         !.pc = IF requests[i].includeDetails THEN "details" ELSE "store",
                         !.found = TRUE,
                         !.results = [NoPayload EXCEPT !.simulation = "s1"]])
    /\ UNCHANGED <<db, cacheVars>>
    /\ PolicyFrame

\* results with includeDetails: await db.simulationResult.findMany(...)
ResultsDetails ==
    \E i \in DOMAIN requests :
    /\ requests[i].kind = "results" /\ requests[i].pc = "details"
    /\ Moves(i, [requests[i] EXCEPT !.pc = "projections",
                                    !.results.detailedResults = TRUE])
    /\ UNCHANGED <<db, cacheVars>>
    /\ PolicyFrame

\* results with includeDetails: the monthly projections
ResultsProjections ==
    \E i \in DOMAIN requests :
    /\ requests[i].kind = "results" /\ requests[i].pc = "projections"
    /\ Moves(i, [requests[i] EXCEPT !.pc = "store",
                                    !.results.monthlyProjections = TRUE])
    /\ UNCHANGED <<db, cacheVars>>
    /\ PolicyFrame

\* results: cache.set(cacheKey, results, {tags, ttl}) and the response
ResultsStore ==
    \E i \in DOMAIN requests :
    /\ requests[i].kind = "results" /\ requests[i].pc = "store"
    /\ CacheBecomes(set(Store, ResultsKey, requests[i].results, <<SimulationTag>>,
                        ResultsTtl, now))
    /\ Moves(i, [requests[i] EXCEPT !.pc = "done", !.status = 200,
                                    !.payload = requests[i].results])
    /\ UNCHANGED db
    /\ PolicyFrame

\* a DELETE /api/simulations/s1 arrives
StartDelete ==
    /\ \A i \in DOMAIN requests : requests[i].kind # "delete"
    /\ requests' = Append(requests, ResultsRequest("delete", "find", FALSE, FALSE))
    /\ UNCHANGED <<db, cacheVars>>
    /\ PolicyFrame

\* DELETE: await db.simulation.findUnique(...); 404 without the row, 400
\* for a running simulation
DeleteFind ==
    \E i \in DOMAIN requests :
    /\ requests[i].kind = "delete" /\ requests[i].pc = "find"
    /\ Moves(i, IF ~db.simulation.exists
                THEN [requests[i] EXCEPT !.pc = "done", !.status = 404]
                ELSE IF db.simulation.status = "running"
                THEN [requests[i] EXCEPT !.pc = "done", !.status = 400]
                ELSE [requests[i] EXCEPT !.pc = "delete", !.found = TRUE])
    /\ UNCHANGED <<db, cacheVars>>
    /\ PolicyFrame

\* DELETE: await db.simulation.delete(...)
DeleteRow ==
    \E i \in DOMAIN requests :
    /\ requests[i].kind = "delete" /\ requests[i].pc = "delete"
    /\ db' = [db EXCEPT !.simulation.exists = FALSE]
    /\ Moves(i, [requests[i] EXCEPT !.pc = "invalidate"])
    /\ UNCHANGED cacheVars
    /\ PolicyFrame

\* DELETE: cache.invalidateTag(CacheTags.simulation(id)) and the response
DeleteInvalidate ==
    \E i \in DOMAIN requests :
    /\ requests[i].kind = "delete" /\ requests[i].pc = "invalidate"
    /\ CacheBecomes(invalidateTag(Store, SimulationTag).store)
    /\ Moves(i, [requests[i] EXCEPT !.pc = "done", !.status = 200])
    /\ UNCHANGED db
    /\ PolicyFrame

NextResults ==
    \/ StartResults
    \/ ResultsLookup
    \/ ResultsFind
    \/ ResultsDetails
    \/ ResultsProjections
    \/ ResultsStore
    \/ StartDelete
    \/ DeleteFind
    \/ DeleteRow
    \/ DeleteInvalidate

SpecResults == InitResults /\ [][NextResults]_vars

(***************************************************************************)
(* /api/scenarios: create, clone, PUT and DELETE of scenarios, and the     *)
(* scenario update that ends runSimulation; the specification              *)
(* SpecScenario.  db.scenarios maps an id to its row, db.links is the      *)
(* scenarioPolicy table, db.latest the id of the newest version of each    *)
(* policy ("" when it has none).  Ids are numbered in order of creation.   *)
(***************************************************************************)
ScenarioTag(id) == "scenario:" \o ToString(id)

AllScenariosTag == "all:scenarios"

NoScenario ==
    [name |-> "", description |-> "", status |-> "", isBaseline |-> FALSE,
     parentScenarioId |-> 0]

NoScenarioBody ==
    [name |-> "", description |-> "", status |-> "", isBaseline |-> FALSE,
     parentScenarioId |-> 0, hasPolicies |-> FALSE, policies |-> <<>>]

\* the id that db.scenario.create gives the next row
nextScenarioId == Cardinality(DOMAIN db.scenarios) + 1

\* include: {policies}: the scenarioPolicy rows of scenario id
policiesOf(links, id) == {sp \in links : sp.scenarioId = id}

\* db.scenarioPolicy.create of clone: the row sp of the original, under the
\* id of the clone, pinned to the newest version of its policy
cloneLinkRepinned(clonedId, sp) ==
    [scenarioId |-> clonedId, policyId |-> sp.policyId,
     policyVersionId |-> db.latest[sp.policyId],
     parameterOverrides |-> sp.parameterOverrides]

\* db.scenarioPolicy.create of clone: the row sp of the original, under the
\* id of the clone
cloneLink(clonedId, sp) ==
    [scenarioId |-> clonedId, policyId |-> sp.policyId,
     policyVersionId |-> sp.policyVersionId,
     parameterOverrides |-> sp.parameterOverrides]

\* findFirst({where: {policyId}, orderBy: {version: 'desc'}}) and, when it
\* finds a version, db.scenarioPolicy.create pinned to it, of POST and PUT;
\* parameterOverrides || null is "" for null
linkToLatest(links, id, p) ==
    IF db.latest[p.policyId] = "" THEN links
    ELSE links \cup {[scenarioId |-> id, policyId |-> p.policyId,
                      policyVersionId |-> db.latest[p.policyId],
                      parameterOverrides |-> p.parameterOverrides]}

\* db.scenario.update({data: {name, description, status}}): a field the
\* body leaves undefined ("") is not written
updated(row, body) ==
    [row EXCEPT !.name = IF body.name = "" THEN @ ELSE body.name,
                !.description = IF body.description = "" THEN @ ELSE body.description,
                !.status = IF body.status = "" THEN @ ELSE body.status]

ScenarioRequest(kind, pc, id, body) ==
    [kind |-> kind, pc |-> pc, id |-> id, body |-> body,
     original |-> NoScenario, policies |-> {}, cloned |-> 0, left |-> {},
     todo |-> <<>>, status |-> 0]

\* a seeded database: the baseline scenario 1, linked to policy p1 at the
\* version it had before the policy was updated, and the draft scenario 2
InitScenario ==
    /\ IdleEngine
    /\ IdleComparators
    /\ stageRun = <<>>
    /\ cache = EmptyStore.cache
    /\ tagIndex = EmptyStore.tagIndex
    /\ stats = EmptyStore.stats
    /\ now = 1
    /\ cacheCall = <<>>
    /\ db = [scenarios |->
                 (1 :> [name |-> "base", description |-> "current",
                        status |-> "active", isBaseline |-> TRUE,
                        parentScenarioId |-> 0]
                  @@ 2 :> [name |-> "plan", description |-> "",
                           status |-> "draft", isBaseline |-> FALSE,
                           parentScenarioId |-> 0]),
             links |-> {[scenarioId |-> 1, policyId |-> "p1",
                         policyVersionId |-> "p1v1", parameterOverrides |-> "o1"],
                        [scenarioId |-> 2, policyId |-> "p2",
                         policyVersionId |-> "p2v1", parameterOverrides |-> ""]},
             latest |-> [p1 |-> "p1v2", p2 |-> "p2v1", p3 |-> ""]]
    /\ requests = <<>>

\* the ids a request may name: the rows there are, and one there is not
Named == DOMAIN db.scenarios \cup {nextScenarioId}

ScenarioPostBodies ==
    {[NoScenarioBody EXCEPT !.name = "new", !.isBaseline = TRUE],
     [NoScenarioBody EXCEPT !.name = "branch", !.parentScenarioId = 1,
                            !.hasPolicies = TRUE,
                            !.policies = <<[policyId |-> "p1", parameterOverrides |-> ""]>>]}

CloneBodies ==
    {NoScenarioBody,
     [NoScenarioBody EXCEPT !.name = "fork", !.description = "what if"]}

ScenarioPutBodies ==
    {[NoScenarioBody EXCEPT !.status = "archived"],
     [NoScenarioBody EXCEPT !.name = "renamed", !.hasPolicies = TRUE,
                            !.policies = <<[policyId |-> "p2", parameterOverrides |-> "o2"],
                                           [policyId |-> "p3", parameterOverrides |-> ""]>>],
     [NoScenarioBody EXCEPT !.status = "active", !.hasPolicies = TRUE]}

Arrives(request) ==
    /\ requests' = Append(requests, request)
    /\ UNCHANGED <<db, cacheVars>>
    /\ PolicyFrame

\* a POST /api/scenarios arrives; the tenant and its user are there
StartScenarioPost ==
    /\ Len(requests) < MaxRequests
    /\ \E body \in ScenarioPostBodies :
           Arrives(ScenarioRequest("post", "create", 0, body))

\* POST: await db.scenario.create(...)
ScenarioPostCreate ==
    \E i \in DOMAIN requests :
    /\ requests[i].kind = "post" /\ requests[i].pc = "create"
    /\ db' = [db EXCEPT !.scenarios = @ @@ (nextScenarioId :>
                 [name |-> requests[i].body.name,
                  description |-> requests[i].body.description,
                  status |-> "draft",
                  isBaseline |-> requests[i].body.isBaseline,
                  parentScenarioId |-> requests[i].body.parentScenarioId])]
    /\ Moves(i, [requests[i] EXCEPT !.pc = "link", !.id = nextScenarioId,
                                    !.todo = requests[i].body.policies])
    /\ UNCHANGED cacheVars
    /\ PolicyFrame

\* POST: one round of the loop over policies
ScenarioPostLink ==
    \E i \in DOMAIN requests :
    /\ requests[i].kind = "post" /\ requests[i].pc = "link"
    /\ requests[i].todo # <<>>
    /\ db' = [db EXCEPT !.links = linkToLatest(@, requests[i].id, Head(requests[i].todo))]
    /\ Moves(i, [requests[i] EXCEPT !.todo = Tail(@)])
    /\ UNCHANGED cacheVars
    /\ PolicyFrame

\* POST: the two invalidateTag calls, the final findUnique and the response
ScenarioPostInvalidate ==
    \E i \in DOMAIN requests :
    /\ requests[i].kind = "post" /\ requests[i].pc = "link"
    /\ requests[i].todo = <<>>
    /\ CacheBecomes(invalidateTags(Store, <<TenantTag, AllScenariosTag>>).store)
    /\ Moves(i, [requests[i] EXCEPT !.pc = "done", !.status = 201])
    /\ UNCHANGED db
    /\ PolicyFrame

\* a POST /api/scenarios/[id]/clone arrives
StartClone ==
    /\ Len(requests) < MaxRequests
    /\ \E id \in Named, body \in CloneBodies :
           Arrives(ScenarioRequest("clone", "find", id, body))

\* clone: await db.scenario.findUnique({include: {policies}}); 404 without
\* the row
CloneFind ==
    \E i \in DOMAIN requests :
    /\ requests[i].kind = "clone" /\ requests[i].pc = "find"
    /\ Moves(i, IF requests[i].id \notin DOMAIN db.scenarios
                THEN [requests[i] EXCEPT !.pc = "done", !.status = 404]
                ELSE [requests[i] EXCEPT
                          !.pc = "create",
                          !.original = db.scenarios[requests[i].id],
                          !.policies = policiesOf(db.links, requests[i].id)])
    /\ UNCHANGED <<db, cacheVars>>
    /\ PolicyFrame

\* clone: await db.scenario.create(...)
CloneCreate ==
    \E i \in DOMAIN requests :
    /\ requests[i].kind = "clone" /\ requests[i].pc = "create"
    /\ db' = [db EXCEPT !.scenarios = @ @@ (nextScenarioId :>
                 [name |-> IF requests[i].body.name # "" THEN requests[i].body.name
                           ELSE requests[i].original.name \o " (Copy)",
                  description |-> IF requests[i].body.description # ""
                                  THEN requests[i].body.description
                                  ELSE requests[i].original.description,
                  status |-> "draft",
                  isBaseline |-> FALSE,
                  parentScenarioId |-> requests[i].id])]
    /\ Moves(i, [requests[i] EXCEPT !.pc = "copy", !.cloned = nextScenarioId,
                                    !.left = requests[i].policies])
    /\ UNCHANGED cacheVars
    /\ PolicyFrame

\* clone: one round of the loop over original.policies, in the order the
\* database returned them
CloneCopy ==
    \E i \in DOMAIN requests :
    /\ requests[i].kind = "clone" /\ requests[i].pc = "copy"
    /\ \E sp \in requests[i].left :
          /\ db' = [db EXCEPT !.links = @ \cup {cloneLink(requests[i].cloned, sp)}]
          /\ Moves(i, [requests[i] EXCEPT !.left = @ \ {sp}])
    /\ UNCHANGED cacheVars
    /\ PolicyFrame

\* clone: the two invalidateTag calls, the final findUnique and the response
CloneInvalidate ==
    \E i \in DOMAIN requests :
    /\ requests[i].kind = "clone" /\ requests[i].pc = "copy"
    /\ requests[i].left = {}
    /\ CacheBecomes(invalidateTags(Store, <<TenantTag, AllScenariosTag>>).store)
    /\ Moves(i, [requests[i] EXCEPT !.pc = "done", !.status = 201])
    /\ UNCHANGED db
    /\ PolicyFrame

\* a PUT /api/scenarios/[id] arrives
StartScenarioPut ==
    /\ Len(requests) < MaxRequests
    /\ \E id \in Named, body \in ScenarioPutBodies :
           Arrives(ScenarioRequest("put", "update", id, body))

\* PUT: await db.scenario.update(...), which throws without the row (500)
ScenarioPutUpdate ==
    \E i \in DOMAIN requests :
    /\ requests[i].kind = "put" /\ requests[i].pc = "update"
    /\ IF requests[i].id \notin DOMAIN db.scenarios
       THEN /\ Moves(i, [requests[i] EXCEPT !.pc = "done", !.status = 500])
            /\ UNCHANGED db
       ELSE /\ db' = [db EXCEPT !.scenarios[requests[i].id] =
                                    updated(@, requests[i].body)]
            /\ Moves(i, [requests[i] EXCEPT
                             !.pc = IF requests[i].body.hasPolicies
                                    THEN "unlink" ELSE "invalidate"])
    /\ UNCHANGED cacheVars
    /\ PolicyFrame

\* PUT: await db.scenarioPolicy.deleteMany({where: {scenarioId: id}})
ScenarioPutUnlink ==
    \E i \in DOMAIN requests :
    /\ requests[i].kind = "put" /\ requests[i].pc = "unlink"
    /\ db' = [db EXCEPT !.links = @ \ policiesOf(@, requests[i].id)]
    /\ Moves(i, [requests[i] EXCEPT !.pc = "link", !.todo = requests[i].body.policies])
    /\ UNCHANGED cacheVars
    /\ PolicyFrame

\* PUT: one round of the loop over policies
ScenarioPutLink ==
    \E i \in DOMAIN requests :
    /\ requests[i].kind = "put" /\ requests[i].pc = "link"
    /\ requests[i].todo # <<>>
    /\ db' = [db EXCEPT !.links = linkToLatest(@, requests[i].id, Head(requests[i].todo))]
    /\ Moves(i, [requests[i] EXCEPT !.todo = Tail(@)])
    /\ UNCHANGED cacheVars
    /\ PolicyFrame

\* PUT: the two invalidateTag calls and the response
ScenarioPutInvalidate ==
    \E i \in DOMAIN requests :
    /\ requests[i].kind = "put"
    /\ \/ requests[i].pc = "invalidate"
       \/ requests[i].pc = "link" /\ requests[i].todo = <<>>
    /\ CacheBecomes(invalidateTags(Store, <<ScenarioTag(requests[i].id), TenantTag>>).store)
    /\ Moves(i, [requests[i] EXCEPT !.pc = "done", !.status = 200])
    /\ UNCHANGED db
    /\ PolicyFrame

\* a DELETE /api/scenarios/[id] arrives
StartScenarioDelete ==
    /\ Len(requests) < MaxRequests
    /\ \E id \in Named :
           Arrives(ScenarioRequest("delete", "find", id, NoScenarioBody))

\* DELETE: await db.scenario.findUnique(...); 404 without the row, 400 for
\* a baseline
ScenarioDeleteFind ==
    \E i \in DOMAIN requests :
    /\ requests[i].kind = "delete" /\ requests[i].pc = "find"
    /\ Moves(i, IF requests[i].id \notin DOMAIN db.scenarios
                THEN [requests[i] EXCEPT !.pc = "done", !.status = 404]
                ELSE IF db.scenarios[requests[i].id].isBaseline
                THEN [requests[i] EXCEPT !.pc = "done", !.status = 400]
                ELSE [requests[i] EXCEPT !.pc = "archive"])
    /\ UNCHANGED <<db, cacheVars>>
    /\ PolicyFrame

\* DELETE: await db.scenario.update({data: {status: 'archived'}})
ScenarioDeleteArchive ==
    \E i \in DOMAIN requests :
    /\ requests[i].kind = "delete" /\ requests[i].pc = "archive"
    /\ db' = [db EXCEPT !.scenarios[requests[i].id].status = "archived"]
    /\ Moves(i, [requests[i] EXCEPT !.pc = "invalidate"])
    /\ UNCHANGED cacheVars
    /\ PolicyFrame

\* DELETE: the two invalidateTag calls and the response
ScenarioDeleteInvalidate ==
    \E i \in DOMAIN requests :
    /\ requests[i].kind = "delete" /\ requests[i].pc = "invalidate"
    /\ CacheBecomes(invalidateTags(Store, <<ScenarioTag(requests[i].id), TenantTag>>).store)
    /\ Moves(i, [requests[i] EXCEPT !.pc = "done", !.status = 200])
    /\ UNCHANGED db
    /\ PolicyFrame

\* runSimulation of scenario id reaches its last write,
\* await db.scenario.update({data: {status: 'completed'}})
RunCompletesScenario ==
    \E id \in DOMAIN db.scenarios :
    /\ Len(requests) < MaxRequests
    /\ db' = [db EXCEPT !.scenarios[id].status = "completed"]
    /\ requests' = Append(requests, ScenarioRequest("run", "done", id, NoScenarioBody))
    /\ UNCHANGED cacheVars
    /\ PolicyFrame

NextScenario ==
    \/ StartScenarioPost
    \/ ScenarioPostCreate
    \/ ScenarioPostLink
    \/ ScenarioPostInvalidate
    \/ StartClone
    \/ CloneFind
    \/ CloneCreate
    \/ CloneCopy
    \/ CloneInvalidate
    \/ StartScenarioPut
    \/ ScenarioPutUpdate
    \/ ScenarioPutUnlink
    \/ ScenarioPutLink
    \/ ScenarioPutInvalidate
    \/ StartScenarioDelete
    \/ ScenarioDeleteFind
    \/ ScenarioDeleteArchive
    \/ ScenarioDeleteInvalidate
    \/ RunCompletesScenario

SpecScenario == InitScenario /\ [][NextScenario]_vars

(***************************************************************************)
(* POST /api/simulations with runSimulation, and DELETE                    *)
(* /api/simulations/[id]: the specifications SpecRun and SpecRunFair.      *)
(* db.simulations maps the id of a simulation record to its status,        *)
(* progress and the numbers of its metric and result rows; db.scenario is  *)
(* the status of the one scenario.                                         *)
(***************************************************************************)
\* the entries of metricsData
MetricCount == 14

MaxMonths == 2

RunRequest(kind, pc, id, timeHorizon) ==
    [kind |-> kind, pc |-> pc, id |-> id, timeHorizon |-> timeHorizon,
     simulationId |-> 0, written |-> 0, status |-> 0]

\* the id that db.simulation.create gives the next record
nextSimulationId(i) == i

\* the await that follows the k-th metric write (metrics) or the k-th
\* projection write (projections) of a run over timeHorizon months
afterWrite(pc, k, timeHorizon) ==
    IF pc = "metrics" /\ k < MetricCount THEN "metrics"
    ELSE IF pc = "metrics" /\ timeHorizon > 0 THEN "projections"
    ELSE IF pc = "projections" /\ k < timeHorizon THEN "projections"
    ELSE "complete"

\* a scenario in draft and no simulation yet
InitRun ==
    /\ IdleEngine
    /\ IdleComparators
    /\ stageRun = <<>>
    /\ cache = EmptyStore.cache
    /\ tagIndex = EmptyStore.tagIndex
    /\ stats = EmptyStore.stats
    /\ now = 1
    /\ cacheCall = <<>>
    /\ db = [scenario |-> "draft", simulations |-> <<>>]
    /\ requests = <<>>

\* a POST /api/simulations arrives, for the scenario or for an id that no
\* scenario has
StartSimulation ==
    /\ Len(requests) < MaxRequests
    /\ \E id \in {"scenario", "none"}, timeHorizon \in 1..MaxMonths :
           Arrives(RunRequest("post", "find", id, timeHorizon))

\* POST: await db.scenario.findUnique(...); 404 without the row
SimulationFindScenario ==
    \E i \in DOMAIN requests :
    /\ requests[i].kind = "post" /\ requests[i].pc = "find"
    /\ Moves(i, IF requests[i].id = "none"
                THEN [requests[i] EXCEPT !.pc = "done", !.status = 404]
                ELSE [requests[i] EXCEPT !.pc = "load"])
    /\ UNCHANGED <<db, cacheVars>>
    /\ PolicyFrame

\* runSimulation: the scenario with its policies and the population are
\* read, the engine runs, the user is found
RunLoad ==
    \E i \in DOMAIN requests :
    /\ requests[i].kind = "post" /\ requests[i].pc = "load"
    /\ Moves(i, [requests[i] EXCEPT !.pc = "create"])
    /\ UNCHANGED <<db, cacheVars>>
    /\ PolicyFrame

\* runSimulation: await db.simulation.create({status: 'running', progress: 50})
RunCreate ==
    \E i \in DOMAIN requests :
    /\ requests[i].kind = "post" /\ requests[i].pc = "create"
    /\ db' = [db EXCEPT !.simulations = @ @@ (nextSimulationId(i) :>
                 [status |-> "running", progress |-> 50, metrics |-> 0, results |-> 0])]
    /\ Moves(i, [requests[i] EXCEPT !.pc = "metrics", !.simulationId = nextSimulationId(i)])
    /\ UNCHANGED cacheVars
    /\ PolicyFrame

\* runSimulation: one await db.simulationMetric.create(...) of the loop
RunSaveMetric ==
    \E i \in DOMAIN requests :
    /\ requests[i].kind = "post" /\ requests[i].pc = "metrics"
    /\ db' = [db EXCEPT !.simulations[requests[i].simulationId].metrics = @ + 1]
    /\ Moves(i, [requests[i] EXCEPT
                     !.pc = afterWrite("metrics", requests[i].written + 1,
                                       requests[i].timeHorizon),
                     !.written = IF requests[i].written + 1 < MetricCount
                                 THEN @ + 1 ELSE 0])
    /\ UNCHANGED cacheVars
    /\ PolicyFrame

\* runSimulation: one await db.simulationResult.create(...) of the loop
RunSaveProjection ==
    \E i \in DOMAIN requests :
    /\ requests[i].kind = "post" /\ requests[i].pc = "projections"
    /\ db' = [db EXCEPT !.simulations[requests[i].simulationId].results = @ + 1]
    /\ Moves(i, [requests[i] EXCEPT
                     !.pc = afterWrite("projections", requests[i].written + 1,
                                       requests[i].timeHorizon),
                     !.written = @ + 1])
    /\ UNCHANGED cacheVars
    /\ PolicyFrame

\* runSimulation: await db.simulation.update({status: 'completed', progress: 100})
RunComplete ==
    \E i \in DOMAIN requests :
    /\ requests[i].kind = "post" /\ requests[i].pc = "complete"
    /\ db' = [db EXCEPT !.simulations[requests[i].simulationId] =
                            [@ EXCEPT !.status = "completed", !.progress = 100]]
    /\ Moves(i, [requests[i] EXCEPT !.pc = "scenario"])
    /\ UNCHANGED cacheVars
    /\ PolicyFrame

\* runSimulation: await db.scenario.update({status: 'completed'})
RunUpdateScenario ==
    \E i \in DOMAIN requests :
    /\ requests[i].kind = "post" /\ requests[i].pc = "scenario"
    /\ db' = [db EXCEPT !.scenario = "completed"]
    /\ Moves(i, [requests[i] EXCEPT !.pc = "respond"])
    /\ UNCHANGED cacheVars
    /\ PolicyFrame

\* a write that runSimulation awaits after it created the record rejects:
\* nothing in runSimulation catches it, the catch of POST answers 500
RunThrows ==
    \E i \in DOMAIN requests :
    /\ requests[i].kind = "post"
    /\ requests[i].pc \in {"metrics", "projections", "complete", "scenario"}
    /\ Moves(i, [requests[i] EXCEPT !.pc = "done", !.status = 500])
    /\ UNCHANGED <<db, cacheVars>>
    /\ PolicyFrame

\* POST: the two invalidateTag calls, the final findUnique and the response
SimulationRespond ==
    \E i \in DOMAIN requests :
    /\ requests[i].kind = "post" /\ requests[i].pc = "respond"
    /\ CacheBecomes(invalidateTags(Store, <<"scenario:scenario", TenantTag>>).store)
    /\ Moves(i, [requests[i] EXCEPT !.pc = "done", !.status = 201])
    /\ UNCHANGED db
    /\ PolicyFrame

\* a DELETE /api/simulations/[id] arrives for a record there is
StartSimulationDelete ==
    /\ Len(requests) < MaxRequests
    /\ \E id \in DOMAIN db.simulations :
           Arrives(RunRequest("delete", "find", id, 0))

\* DELETE: await db.simulation.findUnique(...); 404 without the record, 400
\* for a running simulation
SimulationDeleteFind ==
    \E i \in DOMAIN requests :
    /\ requests[i].kind = "delete" /\ requests[i].pc = "find"
    /\ Moves(i, IF requests[i].id \notin DOMAIN db.simulations
                THEN [requests[i] EXCEPT !.pc = "done", !.status = 404]
                ELSE IF db.simulations[requests[i].id].status = "running"
                THEN [requests[i] EXCEPT !.pc = "done", !.status = 400]
                ELSE [requests[i] EXCEPT !.pc = "delete"])
    /\ UNCHANGED <<db, cacheVars>>
    /\ PolicyFrame

\* DELETE: await db.simulation.delete(...), which throws without the
\* record (500)
SimulationDeleteRow ==
    \E i \in DOMAIN requests :
    /\ requests[i].kind = "delete" /\ requests[i].pc = "delete"
    /\ IF requests[i].id \notin DOMAIN db.simulations
       THEN /\ Moves(i, [requests[i] EXCEPT !.pc = "done", !.status = 500])
            /\ UNCHANGED db
       ELSE /\ db' = [db EXCEPT !.simulations =
                         [id \in DOMAIN @ \ {requests[i].id} |-> @[id]]]
            /\ Moves(i, [requests[i] EXCEPT !.pc = "invalidate"])
    /\ UNCHANGED cacheVars
    /\ PolicyFrame

\* DELETE: cache.invalidateTag(CacheTags.simulation(id)) and the response
SimulationDeleteInvalidate ==
    \E i \in DOMAIN requests :
    /\ requests[i].kind = "delete" /\ requests[i].pc = "invalidate"
    /\ CacheBecomes(invalidateTag(Store, "simulation:" \o ToString(requests[i].id)).store)
    /\ Moves(i, [requests[i] EXCEPT !.pc = "done", !.status = 200])
    /\ UNCHANGED db
    /\ PolicyFrame

\* a handler that was called goes on at its await, or ends
RunContinues ==
    \/ SimulationFindScenario
    \/ RunLoad
    \/ RunCreate
    \/ RunSaveMetric
    \/ RunSaveProjection
    \/ RunComplete
    \/ RunUpdateScenario
    \/ RunThrows
    \/ SimulationRespond
    \/ SimulationDeleteFind
    \/ SimulationDeleteRow
    \/ SimulationDeleteInvalidate

NextRun ==
    \/ StartSimulation
    \/ StartSimulationDelete
    \/ RunContinues

SpecRun == InitRun /\ [][NextRun]_vars

\* the event loop resumes every handler whose awaited call has settled
SpecRunFair == SpecRun /\ WF_vars(RunContinues)

(***************************************************************************)
(* Claims about parameter aggregation (checked under SpecAgg).             *)
(***************************************************************************)
RECURSIVE KeyValues(_, _, _)
\* the values that the parameter sets of policies[i..] give key k, in order
KeyValues(policies, k, i) ==
    IF i > Len(policies) THEN <<>>
    ELSE (IF policies[i].parameters[k].t = "undef" THEN <<>>
          ELSE <<policies[i].parameters[k]>>) \o KeyValues(policies, k, i + 1)

Overriders(policies, k) ==
    {i \in DOMAIN policies :
        policies[i].hasOverrides /\ policies[i].overrides[k].t # "undef"}

SetMax(S) == CHOOSE x \in S : \A y \in S : y <= x

RECURSIVE Pow2(_)
Pow2(e) == IF e = 0 THEN 1 ELSE 2 * Pow2(e - 1)

RECURSIVE WeightedTail(_, _)
\* sum over j in i..Len(vs) of vs[j] / 2^(Len(vs) - j + 1)
WeightedTail(vs, i) ==
    IF i > Len(vs) THEN Num(0)
    ELSE Plus(Over(NumOf(vs[i]), Num(Pow2(Len(vs) - i + 1))), WeightedTail(vs, i + 1))

\* (((v1+v2)/2+v3)/2 ... +vn)/2 in closed form: v1/2^(n-1) + sum vi/2^(n-i+1)
RunningAverage(vs) ==
    Plus(Over(NumOf(vs[1]), Num(Pow2(Len(vs) - 1))), WeightedTail(vs, 2))

AllNumbers(vs) == \A i \in DOMAIN vs : vs[i].t = "num"

NumberList(ints) == [i \in DOMAIN ints |-> JsNum(Num(ints[i]))]

\* C7 (as claimed): an override of key k always wins: if any contribution
\* overrides k, the aggregated value of k is the override value of the last
\* contribution that overrides k, wherever parameter sets also contain k.
C7_OverrideAlwaysWins ==
    aggregated.done =>
        \A k \in ParamKeys :
            LET ov == Overriders(input.policies, k)
            IN  ov # {} =>
                  /\ aggregated.lib[k] = input.policies[SetMax(ov)].overrides[k]
                  /\ aggregated.runner[k] = input.policies[SetMax(ov)].overrides[k]

\* the left fold of the claim holds for key k in both engines
FoldsToRunningAverage(k) ==
    LET vs == KeyValues(input.policies, k, 1)
    IN  (Overriders(input.policies, k) = {} /\ vs # <<>> /\ AllNumbers(vs)) =>
          /\ aggregated.lib[k] = JsNum(RunningAverage(vs))
          /\ aggregated.runner[k] = JsNum(RunningAverage(vs))

\* the values 100, 200, 300 (in that order, no overrides) aggregate to r
Aggregates123To(k, r) ==
    (/\ Overriders(input.policies, k) = {}
     /\ KeyValues(input.policies, k, 1) = NumberList(<<100, 200, 300>>)) =>
          /\ aggregated.lib[k] = JsNum(r)
          /\ aggregated.runner[k] = JsNum(r)

\* C8 (as claimed): without overrides a numeric key with values v1..vn
\* aggregates to (((v1+v2)/2+v3)/2 ... +vn)/2, and 100, 200, 300 yields
\* exactly 187.5.
C8_Original ==
    aggregated.done =>
        \A k \in ParamKeys : FoldsToRunningAverage(k) /\ Aggregates123To(k, Q(375, 2))

\* C8 (amended): without overrides, a numeric key with values v1..vn (in
\* contribution order) aggregates to the left-folded running average
\* (((v1+v2)/2+v3)/2 ... +vn)/2 in both engines, which depends on the order:
\* 100, 200, 300 yields exactly 225 (not the mean 200, and not 187.5), and
\* the reverse order 300, 200, 100 yields 175.
C8_RunningAverage ==
    aggregated.done =>
        \A k \in ParamKeys :
            /\ FoldsToRunningAverage(k)
            /\ Aggregates123To(k, Num(225))
            /\ (/\ Overriders(input.policies, k) = {}
                /\ KeyValues(input.policies, k, 1) = NumberList(<<300, 200, 100>>)) =>
                    aggregated.lib[k] = JsNum(Num(175))

\* C8 witness: fineAmount 100, 200, 300 has been aggregated, by both engines,
\* to 225, which is not the mean 200.
C8_Witness ==
    /\ aggregated.done
    /\ Overriders(input.policies, AggKey) = {}
    /\ KeyValues(input.policies, AggKey, 1) = NumberList(<<100, 200, 300>>)
    /\ aggregated.lib[AggKey] = JsNum(Num(225))
    /\ aggregated.runner[AggKey] = JsNum(Num(225))

\* the merge rule as the claim states it: average only when the key is
\* present and both values are numbers, otherwise the new value overwrites
ClaimedMergeEntry(existing, value) ==
    IF value.t = "num" /\ existing.t = "num"
    THEN JsNum(Over(Plus(NumOf(existing), NumOf(value)), Num(2)))
    ELSE value

RECURSIVE ClaimedFold(_, _, _)
ClaimedFold(acc, policies, i) ==
    IF i > Len(policies) THEN acc
    ELSE LET c == policies[i]
             merged == [k \in ParamKeys |->
                          IF c.parameters[k].t = "undef" THEN acc[k]
                          ELSE ClaimedMergeEntry(acc[k], c.parameters[k])]
             next == IF c.hasOverrides
                     THEN [k \in ParamKeys |->
                             IF c.overrides[k].t = "undef" THEN merged[k]
                             ELSE c.overrides[k]]
                     ELSE merged
         IN  ClaimedFold(next, policies, i + 1)

SuppliedValues(policies, k) ==
    {policies[i].parameters[k] : i \in DOMAIN policies}
        \cup {policies[i].overrides[k] : i \in DOMAIN policies}

\* C9 (as claimed): a value is averaged only when the key is present and both
\* the existing and the new value are numbers, and is overwritten otherwise;
\* so the result for a key is one of the supplied values or an average of
\* numbers (never NaN).
C9_AverageOnlyNumbers ==
    aggregated.done =>
        \A k \in ParamKeys :
            /\ aggregated.lib[k] = ClaimedFold(NoParams, input.policies, 1)[k]
            /\ aggregated.runner[k] = ClaimedFold(NoParams, input.policies, 1)[k]
            /\ aggregated.lib[k].t # "undef" =>
                 \/ aggregated.lib[k] \in SuppliedValues(input.policies, k)
                 \/ aggregated.lib[k].t = "num" /\ ~IsNaN(NumOf(aggregated.lib[k]))


(***************************************************************************)
(* Claims about repeated runs and the monthly projections (checked under   *)
(* Spec).                                                                  *)
(***************************************************************************)
Projections(i) == returned[i].metrics.monthlyProjections

\* C1: every call of run(), a second or later call on the same engine
\* included, returns monthlyProjections with exactly config.timeHorizon
\* entries, numbered month 1..timeHorizon in order.
C1_TimeHorizonEntries ==
    \A i \in DOMAIN returned :
        /\ Len(Projections(i)) = input.config.timeHorizon
        /\ \A m \in DOMAIN Projections(i) : Projections(i)[m].month = m

\* C2: the result a run returns is created fresh for that run and immutable
\* thereafter: no later run changes a field of a result returned before (the
\* object a caller holds still reads as it did when it was returned), and no
\* two runs return the same object.
C2_FreshAndImmutable ==
    /\ \A i \in DOMAIN returned : heap[returned[i].ref] = returned[i].metrics
    /\ \A i, j \in DOMAIN returned : i # j => returned[i].ref # returned[j].ref

\* C5: every entry of monthlyProjections has compliance in [0,1] and
\* satisfaction in [0,100], whatever the random source draws.
C5_ProjectionsInRange ==
    \A i \in DOMAIN returned : \A m \in DOMAIN Projections(i) :
        /\ Le(Num(0), Projections(i)[m].compliance)
        /\ Le(Projections(i)[m].compliance, Num(1))
        /\ Le(Num(0), Projections(i)[m].satisfaction)
        /\ Le(Projections(i)[m].satisfaction, Num(100))

\* the factor the specification states: the table entry at (month-1) mod 12
\* with the seasonality flag set, else 1
ClaimedSeasonFactor(month) ==
    IF input.config.includeSeasonality
    THEN getSeasonalityFactors[((month - 1) % SeasonalityLength) + 1]
    ELSE Num(1)

\* C10: for every month in 1..timeHorizon, also past month 12, the monthly
\* revenue and workload projections are defined numbers computed with the
\* seasonal factor at index (month-1) mod 12 when includeSeasonality is set,
\* and with the factor 1 when it is not.
C10_SeasonalFactorModulo ==
    \A i \in DOMAIN returned : \A m \in DOMAIN Projections(i) :
        LET entry == Projections(i)[m]
            metrics == returned[i].metrics
        IN  /\ ~IsNaN(entry.revenue)
            /\ ~IsNaN(entry.workload)
            /\ entry.workload =
                   Times(Over(metrics.workload.totalHours, Horizon(input)),
                         ClaimedSeasonFactor(entry.month))

(***************************************************************************)
(* Claims about the metrics of one run (checked under SpecWide).           *)
(***************************************************************************)
InUnitInterval(x) == Le(Num(0), x) /\ Le(x, Num(1))

InPercentRange(x) == Le(Num(0), x) /\ Le(x, Num(100))

\* C3: for populations and counts >= 0, base compliance rates in [0,1] and
\* numeric parameters of either sign and any size, every per-group adjusted
\* compliance and compliance.citizen, compliance.business and
\* compliance.overall lie in [0,1].
C3_ComplianceInUnitInterval ==
    \A i \in DOMAIN returned :
        LET compliance == returned[i].metrics.compliance
        IN  /\ InUnitInterval(compliance.citizen)
            /\ InUnitInterval(compliance.business)
            /\ InUnitInterval(compliance.overall)
            /\ \A g \in DOMAIN compliance.byCategory :
                   InUnitInterval(compliance.byCategory[g])

\* a library run has returned whose compliance stage clamped a citizen group
\* from above 1 down to 1
C3_Witness ==
    \E i \in DOMAIN returned :
        /\ returned[i].engine = "lib"
        /\ \E g \in DOMAIN input.citizenGroups :
               /\ Gt(Plus(input.citizenGroups[g].complianceRate,
                          citizenComplianceImpact(aggregateParameters(input.policies))),
                     Num(1))
               /\ returned[i].metrics.compliance.byCategory[g] = Num(1)
               /\ input.citizenGroups[g].population > 0

\* C4: for populations and counts >= 0 and numeric parameters and behaviour
\* multipliers, every per-segment satisfaction and satisfaction.citizen,
\* satisfaction.business and satisfaction.overall lie in [0,100].
C4_SatisfactionInPercentRange ==
    \A i \in DOMAIN returned :
        LET satisfaction == returned[i].metrics.satisfaction
        IN  /\ InPercentRange(satisfaction.citizen)
            /\ InPercentRange(satisfaction.business)
            /\ InPercentRange(satisfaction.overall)
            /\ \A g \in DOMAIN satisfaction.byDemographic :
                   InPercentRange(satisfaction.byDemographic[g])

\* a library run has returned whose satisfaction stage clamped one citizen
\* group down to 100 and another up to 0
C4_Witness ==
    \E i \in DOMAIN returned :
        /\ returned[i].engine = "lib"
        /\ \E g, h \in DOMAIN input.citizenGroups :
               /\ returned[i].metrics.satisfaction.byDemographic[g] = Num(100)
               /\ returned[i].metrics.satisfaction.byDemographic[h] = Num(0)
               /\ input.citizenGroups[h].behaviorRules.incomeSensitivity.t = "num"

\* C6: in the result of every run, of the library engine and of the runner's
\* engine, revenue.total = fromFines + fromPermits + fromTaxes + fromFees.
C6_RevenueTotalIsSum ==
    \A i \in DOMAIN returned :
        LET revenue == returned[i].metrics.revenue
        IN  revenue.total =
                Plus(Plus(Plus(revenue.fromFines, revenue.fromPermits),
                          revenue.fromTaxes), revenue.fromFees)

\* a library run has returned with fines, permits and taxes all collected
\* and an economic growth that scales them
C6_Witness ==
    \E i \in DOMAIN returned :
        /\ returned[i].engine = "lib"
        /\ Gt(returned[i].metrics.revenue.fromFines, Num(0))
        /\ Gt(returned[i].metrics.revenue.fromPermits, Num(0))
        /\ Gt(returned[i].metrics.revenue.fromTaxes, Num(0))
        /\ Gt(input.config.economicGrowth, Num(0))


(***************************************************************************)
(* Claims about the stages of one run, engine by engine (checked under     *)
(* SpecWide).  The stated values are written out from the specification's  *)
(* formulas on the input of the run.                                       *)
(***************************************************************************)
StatedParam(key, dflt) == P(aggregateParameters(input.policies), key, dflt)

StatedGrowthFactor ==
    Plus(Num(1), Times(Over(input.config.economicGrowth, Num(100)),
                       Over(Num(input.config.timeHorizon), Num(12))))

StatedCitizenTaxes ==
    Sum([g \in DOMAIN input.citizenGroups |->
            Times(Times(Times(Num(input.citizenGroups[g].population),
                              OrDefault(input.citizenGroups[g].demographics.averageIncome,
                                        Num(30000))),
                        Over(StatedParam("taxRate", Num(0)), Num(100))),
                  Over(Num(input.config.timeHorizon), Num(12)))])

StatedAverageRevenue(business) ==
    OrDefault(business.behaviorRules.averageRevenue,
              IF business.sizeCategory = "large" THEN Num(2000000)
              ELSE IF business.sizeCategory = "medium" THEN Num(500000)
              ELSE Num(100000))

StatedBusinessTaxes ==
    Sum([b \in DOMAIN input.businessCategories |->
            Times(Times(Times(Num(input.businessCategories[b].count),
                              StatedAverageRevenue(input.businessCategories[b])),
                        Over(StatedParam("taxRate", Num(0)), Num(100))),
                  Over(Num(input.config.timeHorizon), Num(12)))])

\* C14: in the library engine and in the engine that runSimulation executes,
\* revenue.fromTaxes includes, for every business category, count *
\* averageRevenue * (taxRate/100) * (timeHorizon/12), averageRevenue from
\* behaviorRules or else the size default.
C14_BusinessTaxesInBothEngines ==
    \A i \in DOMAIN returned :
        returned[i].metrics.revenue.fromTaxes =
            Times(Plus(StatedCitizenTaxes, StatedBusinessTaxes), StatedGrowthFactor)


StatedClamp(low, high, x) == MathMin(high, MathMax(low, x))

\* clamp(0,100, 70 + fineImpact*incomeSensitivity + permitImpact + taxImpact
\*                 + graceImpact*policyAwareness), multipliers 1 if absent
StatedCitizenSatisfaction(params, group) ==
    StatedClamp(Num(0), Num(100),
        Plus(Plus(Plus(Plus(Num(70),
                            Times(satFineImpact(params),
                                  OrDefault(group.behaviorRules.incomeSensitivity, Num(1)))),
                       satPermitImpact(params)),
                  satTaxImpact(params)),
             Times(satGraceImpact(params),
                   OrDefault(group.behaviorRules.policyAwareness, Num(1)))))

\* clamp(0,100, 70 + fineImpact*0.5 + permitImpact*1.5
\*                 + taxImpact*1.2*sizeModifier*policyAwareness)
StatedBusinessSatisfaction(params, business) ==
    StatedClamp(Num(0), Num(100),
        Plus(Plus(Plus(Num(70), Times(satFineImpact(params), Q(1, 2))),
                  Times(satPermitImpact(params), Q(3, 2))),
             Times(Times(Times(satTaxImpact(params), Q(12, 10)),
                         IF business.sizeCategory = "large" THEN Q(8, 10)
                         ELSE IF business.sizeCategory = "small" THEN Q(12, 10)
                         ELSE Num(1)),
                   OrDefault(business.behaviorRules.policyAwareness, Num(1)))))

StatedSatisfaction ==
    Once(aggregateParameters(input.policies), LAMBDA params :
        [citizen |->
            WeightedAverage(
                [g \in DOMAIN input.citizenGroups |->
                    StatedCitizenSatisfaction(params, input.citizenGroups[g])],
                [g \in DOMAIN input.citizenGroups |-> input.citizenGroups[g].population],
                Num(70)),
         business |->
            WeightedAverage(
                [b \in DOMAIN input.businessCategories |->
                    StatedBusinessSatisfaction(params, input.businessCategories[b])],
                [b \in DOMAIN input.businessCategories |->
                    input.businessCategories[b].count],
                Num(70))])

\* C15: in the library engine and in the engine run by runSimulation, the
\* satisfaction of a segment applies its behaviour multipliers
\* (incomeSensitivity and policyAwareness, 1 if absent) and, for a business,
\* the size modifier 0.8 / 1.2 / 1, so satisfaction.citizen and
\* satisfaction.business are the weighted averages of those segment values.
C15_MultipliersInBothEngines ==
    \A i \in DOMAIN returned :
        /\ returned[i].metrics.satisfaction.citizen = StatedSatisfaction.citizen
        /\ returned[i].metrics.satisfaction.business = StatedSatisfaction.business


\* detectionRate = min(0.9, 0.3 + min(0.4, inspectionFrequency/25))
StatedDetectionRate ==
    MathMin(Q(9, 10),
            Plus(Q(3, 10),
                 MathMin(Q(4, 10),
                         Over(StatedParam("inspectionFrequency", Num(0)), Num(25)))))

StatedCitizenFines ==
    Sum([g \in DOMAIN input.citizenGroups |->
            Times(Times(Times(Num(input.citizenGroups[g].population),
                              Minus(Num(1), input.citizenGroups[g].complianceRate)),
                        StatedDetectionRate),
                  StatedParam("fineAmount", Num(0)))])

StatedCitizenPermits ==
    Sum([g \in DOMAIN input.citizenGroups |->
            Times(Times(Num(input.citizenGroups[g].population),
                        OrDefault(input.citizenGroups[g].demographics.permitEligibility,
                                  Q(3, 10))),
                  StatedParam("feeAmount", Num(0)))])

C17_TotalHoursOfReportedCounts ==
    \A i \in DOMAIN returned :
        LET workload == returned[i].metrics.workload
        IN  workload.totalHours =
                Plus(Plus(Times(workload.inspections, Num(2)),
                          Times(workload.permits, Q(1, 2))),
                     Times(workload.appeals, Num(4)))


\* every number of a result is a defined number
AllDefined(metrics) ==
    /\ \A x \in {metrics.revenue.total, metrics.revenue.fromFines,
                 metrics.revenue.fromPermits, metrics.revenue.fromTaxes,
                 metrics.revenue.fromFees,
                 metrics.compliance.overall, metrics.compliance.citizen,
                 metrics.compliance.business,
                 metrics.workload.totalHours, metrics.workload.inspections,
                 metrics.workload.permits, metrics.workload.appeals,
                 metrics.workload.staffRequired,
                 metrics.satisfaction.overall, metrics.satisfaction.citizen,
                 metrics.satisfaction.business} : ~IsNaN(x)
    /\ \A g \in DOMAIN metrics.compliance.byCategory :
           ~IsNaN(metrics.compliance.byCategory[g])
    /\ \A g \in DOMAIN metrics.satisfaction.byDemographic :
           ~IsNaN(metrics.satisfaction.byDemographic[g])
    /\ \A m \in DOMAIN metrics.monthlyProjections :
           /\ ~IsNaN(metrics.monthlyProjections[m].revenue)
           /\ ~IsNaN(metrics.monthlyProjections[m].compliance)
           /\ ~IsNaN(metrics.monthlyProjections[m].workload)
           /\ ~IsNaN(metrics.monthlyProjections[m].satisfaction)

\* C18: with a total citizen population of 0 (no groups, or populations all
\* 0) compliance.citizen is 0 and satisfaction.citizen is 70, likewise for
\* businesses with a total count of 0; overall is still (citizen +
\* business)/2 and every number of the result is defined.
C18_ZeroTotalsFallBack ==
    \A i \in DOMAIN returned :
        LET metrics == returned[i].metrics
        IN  /\ TotalPopulation(input) = Num(0) =>
                /\ metrics.compliance.citizen = Num(0)
                /\ metrics.satisfaction.citizen = Num(70)
            /\ TotalBusinesses(input) = Num(0) =>
                /\ metrics.compliance.business = Num(0)
                /\ metrics.satisfaction.business = Num(70)
            /\ metrics.compliance.overall =
                   Over(Plus(metrics.compliance.citizen, metrics.compliance.business),
                        Num(2))
            /\ metrics.satisfaction.overall =
                   Over(Plus(metrics.satisfaction.citizen,
                             metrics.satisfaction.business), Num(2))
            /\ (TotalPopulation(input) = Num(0) \/ TotalBusinesses(input) = Num(0)) =>
                   AllDefined(metrics)

\* the library engine has run on citizen groups whose populations are all 0,
\* next to businesses that do count
C18_Witness ==
    \E i \in DOMAIN returned :
        /\ returned[i].engine = "lib"
        /\ input.citizenGroups # <<>>
        /\ TotalPopulation(input) = Num(0)
        /\ TotalBusinesses(input) # Num(0)
        /\ returned[i].metrics.satisfaction.citizen = Num(70)
        /\ returned[i].metrics.compliance.overall =
               Over(returned[i].metrics.compliance.business, Num(2))


SuppliedPermitDurationIsZero ==
    aggregateParameters(input.policies)["permitDuration"] = JsNum(Num(0))

\* permits of the 365-day default:
\* (totalPopulation*0.1 + totalBusinesses) * (12 / (365/30)) * (timeHorizon/12)
PermitsAtDefaultDuration ==
    Times(Times(Plus(Times(TotalPopulation(input), Q(1, 10)), TotalBusinesses(input)),
                Over(Num(12), Over(Num(365), Num(30)))),
          Over(Num(input.config.timeHorizon), Num(12)))

Kpi(metrics) ==
    [revenue |-> metrics.revenue.total,
     compliance |-> metrics.compliance.overall,
     workload |-> metrics.workload.totalHours,
     satisfaction |-> metrics.satisfaction.overall]

KpiNames == {"revenue", "compliance", "workload", "satisfaction"}

\* C11: compareScenarios gives, for each scenario and each of the four KPIs,
\* delta = scenario value - baseline value, and percentChange =
\* delta / baseline * 100 whenever the baseline value is not zero, a negative
\* baseline value included.
C11_PercentChangeForNonZeroBaseline ==
    compared.called =>
        \A i \in DOMAIN compared.result.scenarios :
            \A kpi \in KpiNames :
                LET baseline == Kpi(compared.baseline)[kpi]
                    value == Kpi(compared.scenarios[i].metrics)[kpi]
                    row == compared.result.scenarios[i]
                IN  /\ row.delta[kpi] = Minus(value, baseline)
                    /\ baseline # Num(0) =>
                           row.percentChange[kpi] =
                               Times(Over(Minus(value, baseline), baseline), Num(100))

\* Holds is true of every delta row (of some delta row) of a response
EveryRow(response, Holds(_)) ==
    \A c \in DOMAIN response.scenarios :
        \A k \in DOMAIN response.scenarios[c].delta : Holds(response.scenarios[c].delta[k])

SomeRow(response, Holds(_)) ==
    \E c \in DOMAIN response.scenarios :
        \E k \in DOMAIN response.scenarios[c].delta : Holds(response.scenarios[c].delta[k])

\* C12: in compareScenarios, in GET /api/comparisons/[id] and in the
\* comparison export, percentChange is 0 whenever the baseline value is 0,
\* whatever the scenario value is, and no percentChange is the outcome of a
\* division by zero.
C12_ZeroBaselineGivesZeroPercent ==
    /\ compared.called =>
           \A i \in DOMAIN compared.result.scenarios :
               \A kpi \in KpiNames :
                   /\ compared.result.scenarios[i].percentChange[kpi].d # 0
                   /\ Kpi(compared.baseline)[kpi] = Num(0) =>
                          compared.result.scenarios[i].percentChange[kpi] = Num(0)
    /\ EveryRow(metricComparison.response,
                LAMBDA row : /\ row.percentChange.d # 0
                             /\ row.baseline = Num(0) => row.percentChange = Num(0))
    /\ EveryRow(metricComparison.exported,
                LAMBDA row : /\ row.percentChange.d # 0
                             /\ row.baseline = Num(0) => row.percentChange = Num(0))

\* all three comparators have met a zero baseline with a scenario value that
\* is not zero
C12_Witness ==
    /\ compared.called
    /\ \E i \in DOMAIN compared.result.scenarios :
           \E kpi \in KpiNames :
               /\ Kpi(compared.baseline)[kpi] = Num(0)
               /\ Kpi(compared.scenarios[i].metrics)[kpi] # Num(0)
    /\ SomeRow(metricComparison.response,
               LAMBDA row : row.baseline = Num(0) /\ row.scenario # Num(0))
    /\ SomeRow(metricComparison.exported,
               LAMBDA row : row.baseline = Num(0) /\ row.scenario # Num(0))

\* the metric names of a list
NamesOf(metrics) == {metrics[j].name : j \in DOMAIN metrics}

\* the rows a named-metric comparison owes for one compared scenario: one
\* per baseline metric whose name the scenario lists, in baseline order,
\* flagged by the polarity of the baseline metric
RowsAsStated(baselineMetrics, scenarioMetrics, rows) ==
    LET kept == SelectSeq(baselineMetrics,
                          LAMBDA bm : bm.name \in NamesOf(scenarioMetrics))
    IN  /\ Len(rows) = Len(kept)
        /\ \A k \in DOMAIN rows :
               /\ rows[k].name = kept[k].name
               /\ rows[k].baseline = kept[k].value
               /\ \E j \in DOMAIN scenarioMetrics :
                      /\ scenarioMetrics[j].name = rows[k].name
                      /\ rows[k].scenario = scenarioMetrics[j].value
               /\ rows[k].delta = Minus(rows[k].scenario, rows[k].baseline)
               /\ rows[k].isPositive =
                      (IF kept[k].isPositive THEN Gt(rows[k].delta, Num(0))
                       ELSE Lt(rows[k].delta, Num(0)))
               /\ rows[k].delta = Num(0) => ~rows[k].isPositive

\* C13: the named-metric comparison emits exactly one delta row per baseline
\* metric whose name occurs in the scenario's metric list (others are
\* dropped, scenario-only metrics never appear); isPositive is delta > 0 for
\* a positive polarity and delta < 0 otherwise, so never true for a zero
\* delta; the GET route and the export agree on name, delta, percentChange
\* and isPositive.
C13_OneRowPerSharedName ==
    LET response == metricComparison.response
        exported == metricComparison.exported
        scenarios == metricComparison.comparedScenarios
    IN  /\ response.hasMetrics =>
               \A c \in DOMAIN scenarios :
                   RowsAsStated(metricComparison.baselineMetrics,
                                scenarios[c].metrics, response.scenarios[c].delta)
        /\ exported.hasMetrics =>
               \A c \in DOMAIN scenarios :
                   RowsAsStated(metricComparison.baselineMetrics,
                                scenarios[c].metrics, exported.scenarios[c].delta)
        /\ (response.hasMetrics /\ exported.hasMetrics) =>
               \A c \in DOMAIN scenarios :
                   /\ Len(response.scenarios[c].delta) = Len(exported.scenarios[c].delta)
                   /\ \A k \in DOMAIN response.scenarios[c].delta :
                          LET ours == response.scenarios[c].delta[k]
                              theirs == exported.scenarios[c].delta[k]
                          IN  /\ ours.name = theirs.name
                              /\ ours.delta = theirs.delta
                              /\ ours.percentChange = theirs.percentChange
                              /\ ours.isPositive = theirs.isPositive

\* both endpoints have answered for a scenario that lacks one baseline
\* metric, lists a metric the baseline does not have, and leaves one metric
\* unchanged
C13_Witness ==
    /\ metricComparison.response.hasMetrics
    /\ metricComparison.exported.hasMetrics
    /\ \E c \in DOMAIN metricComparison.comparedScenarios :
           LET rows == metricComparison.response.scenarios[c].delta
               scenarioMetrics == metricComparison.comparedScenarios[c].metrics
           IN  /\ 0 < Len(rows)
               /\ Len(rows) < Len(metricComparison.baselineMetrics)
               /\ NamesOf(scenarioMetrics) \ NamesOf(metricComparison.baselineMetrics) # {}
               /\ \E k \in DOMAIN rows : rows[k].delta = Num(0)

(***************************************************************************)
(* Claims about the cache.                                                 *)
(***************************************************************************)
\* the keys whose entry carries one of the tags
Carrying(tagSet) == {k \in DOMAIN cache : cache[k].tags \cap tagSet # {}}

\* a step that removes exactly the entries of the keys in removed and
\* returns their number: afterwards get and has miss each of them, every
\* other entry keeps its value, tags and expiry, and without such an entry
\* the call returns 0 and changes nothing
RemovesExactly(removed) ==
    /\ cacheCall'.result = Cardinality(removed)
    /\ DOMAIN cache' = DOMAIN cache \ removed
    /\ \A k \in removed : ~get(Store', k, now').hit /\ ~has(Store', k, now').result
    /\ \A k \in DOMAIN cache \ removed : cache'[k] = cache[k]
    /\ stats' = stats
    /\ removed = {} => cacheCall'.result = 0 /\ cache' = cache /\ tagIndex' = tagIndex

\* C20: invalidateTag(tag) removes exactly the entries last stored with the
\* tag and returns their number; get and has then miss each of them; the
\* other entries keep value, tags and expiry; a tag that no entry carries
\* gives 0 and changes nothing.  invalidateTags returns the sum over its
\* tags, an entry that carries several of the listed tags counting once.
C20_InvalidateRemovesTagged ==
    [][/\ (now' = now /\ cacheCall'.op = "invalidateTag") =>
              RemovesExactly(Carrying({cacheCall'.tags[1]}))
       /\ (now' = now /\ cacheCall'.op = "invalidateTags") =>
              RemovesExactly(Carrying({cacheCall'.tags[i] : i \in DOMAIN cacheCall'.tags}))
      ]_vars

\* invalidateTags(['t1', 't2']) has removed the one entry that carried both
\* tags, counted it once, and has left the other entry behind
C20_Witness ==
    /\ cacheCall.op = "invalidateTags"
    /\ cacheCall.tags = <<"t1", "t2">>
    /\ cacheCall.removed = {{"t1", "t2"}}
    /\ cacheCall.result = 1
    /\ DOMAIN cache # {}

\* C24: after any sequence of cache calls the tag index and the entry map
\* agree: key k is listed under tag t exactly when the cache holds an entry
\* for k whose tags contain t, and no tag of the index has an empty key set;
\* so a key that is set again with other tags is no longer listed under its
\* old tags.
C24_IndexAgreesWithEntries ==
    /\ DOMAIN tagIndex \subseteq Tags
    /\ \A t \in Tags, k \in Keys :
           (t \in DOMAIN tagIndex /\ k \in tagIndex[t])
               <=> (k \in DOMAIN cache /\ t \in cache[k].tags)
    /\ \A t \in DOMAIN tagIndex : tagIndex[t] # {}

\* a key stored under t1 has been set again under t2 alone, and t1 has left
\* the index
C24_Witness ==
    /\ cacheCall.op = "set"
    /\ cacheCall.unlisted = {"t1"}
    /\ cacheCall.tags = <<"t2">>
    /\ cacheCall.key \in DOMAIN cache
    /\ "t1" \notin DOMAIN tagIndex

\* the entries whose deadline the clock has passed
Expired == {k \in DOMAIN cache : cache[k].expiresAt # 0 /\ now > cache[k].expiresAt}

\* the key of the call has left the cache and the key sets of the index
KeyIsGone ==
    /\ cacheCall'.key \notin DOMAIN cache'
    /\ \A t \in DOMAIN tagIndex' : cacheCall'.key \notin tagIndex'[t]

\* C25: an entry stored with a positive ttl at time t has the deadline
\* t + ttl, one stored without ttl or with ttl 0 has none; get and has find
\* an entry up to and including its deadline and never after it, the first
\* such call removing the entry and its index references and, for get,
\* counting one miss; cleanup removes exactly the expired entries and
\* returns their number; no call but set changes an entry that stays.
C25_ExpiryAtTtl ==
    [][/\ now' # now => cache' = cache
       /\ now' = now =>
           /\ cacheCall'.op = "set" =>
                  cache'[cacheCall'.key].expiresAt =
                      IF cacheCall'.ttl > 0 THEN now + cacheCall'.ttl ELSE 0
           /\ (cacheCall'.op = "get" /\ cacheCall'.key \in DOMAIN cache) =>
                  IF cacheCall'.key \in Expired
                  THEN /\ ~cacheCall'.hit
                       /\ KeyIsGone
                       /\ stats' = [stats EXCEPT !.misses = @ + 1]
                  ELSE /\ cacheCall'.hit
                       /\ cacheCall'.value = cache[cacheCall'.key].value
                       /\ cache' = cache /\ tagIndex' = tagIndex
                       /\ stats' = [stats EXCEPT !.hits = @ + 1]
           /\ (cacheCall'.op = "has" /\ cacheCall'.key \in DOMAIN cache) =>
                  /\ stats' = stats
                  /\ IF cacheCall'.key \in Expired
                     THEN ~cacheCall'.hit /\ KeyIsGone
                     ELSE cacheCall'.hit /\ cache' = cache /\ tagIndex' = tagIndex
           /\ cacheCall'.op = "cleanup" =>
                  /\ cacheCall'.result = Cardinality(Expired)
                  /\ DOMAIN cache' = DOMAIN cache \ Expired
           /\ \A k \in DOMAIN cache \cap DOMAIN cache' :
                  (cacheCall'.op = "set" /\ cacheCall'.key = k) \/ cache'[k] = cache[k]
      ]_vars

\* a get after the deadline has missed, has removed the entry stored under
\* t1 and its index references, and has left an entry behind
C25_Witness ==
    /\ cacheCall.op = "get"
    /\ ~cacheCall.hit
    /\ cacheCall.removed = {{"t1"}}
    /\ stats.misses = 1
    /\ "t1" \notin DOMAIN tagIndex
    /\ DOMAIN cache # {}

(***************************************************************************)
(* Claims about the stages of run().                                       *)
(***************************************************************************)
StatedOrder == <<"revenue", "compliance", "workload", "satisfaction", "projections">>

\* what the first k stages of the run owe to a results object: each section
\* as its stage computes it from the input of the run, the workload from the
\* compliance of this run, the projections from the totals of this run
SectionsWritten(k, results) ==
    LET lib == stageRun.engine = "lib"
        revenue == IF lib THEN calculateRevenue(input) ELSE runnerCalculateRevenue(input)
        compliance == IF lib THEN calculateCompliance(input)
                      ELSE runnerCalculateCompliance(input)
        afterCompliance == [stageRun.start EXCEPT !.revenue = revenue,
                                                  !.compliance = compliance]
        workload == IF lib THEN calculateWorkload(input, afterCompliance)
                    ELSE runnerCalculateWorkload(input, afterCompliance)
        satisfaction == IF lib THEN calculateSatisfaction(input)
                        ELSE runnerCalculateSatisfaction(input)
        afterSatisfaction == [afterCompliance EXCEPT !.workload = workload,
                                                     !.satisfaction = satisfaction]
    IN  /\ k >= 1 => results.revenue = revenue
        /\ k >= 2 => results.compliance = compliance
        /\ k >= 3 => results.workload = workload
        /\ k >= 4 => results.satisfaction = satisfaction
        /\ k >= 5 => results.monthlyProjections =
                         IF lib
                         THEN generateMonthlyProjections(input, afterSatisfaction,
                                                         stageRun.seed)
                         ELSE runnerGenerateMonthlyProjections(input, afterSatisfaction,
                                                               stageRun.seed)

\* C22: run() executes revenue, compliance, workload, satisfaction and
\* projections in this order; the progress callback is called five times,
\* with 20, 40, 60, 80 and 100, the k-th call after stage k has written its
\* section; the workload stage reads the compliance.overall of the
\* compliance stage of the same run, the projection stage the totals of the
\* run.
C22_StagesInOrder ==
    /\ stageRun.order = SubSeq(StatedOrder, 1, stageRun.currentStep)
    /\ SectionsWritten(stageRun.currentStep, stageRun.results)
    /\ stageRun.hasCallback =>
           /\ Len(stageRun.calls) =
                  IF stageRun.next = "callback" THEN stageRun.currentStep - 1
                  ELSE stageRun.currentStep
           /\ stageRun.finished => Len(stageRun.calls) = 5
           /\ \A k \in DOMAIN stageRun.calls :
                  /\ stageRun.calls[k].value = Num(20 * k)
                  /\ SectionsWritten(k, stageRun.calls[k].results)

\* a run of the library engine with a callback has returned, after a
\* compliance stage whose overall rate is not the initial 0 and a workload
\* stage whose result differs from the one the initial 0 would give
C22_Witness ==
    /\ stageRun.engine = "lib"
    /\ stageRun.hasCallback
    /\ stageRun.finished
    /\ Len(stageRun.calls) = 5
    /\ stageRun.results.compliance.overall # Num(0)
    /\ stageRun.results.workload # calculateWorkload(input, initializeResults)

(***************************************************************************)
(* Claims about the policy handlers.                                       *)
(***************************************************************************)
\* every request that has arrived has been answered
AllAnswered == \A i \in DOMAIN requests : requests[i].pc = "done"

\* C23: PUT /api/policies/[id] with parameters creates a version numbered
\* one above the highest existing one and changes the parameters of no
\* existing version; when it completes exactly one version of the policy is
\* active, the new one, and all older versions are inactive.
C23_NewVersionIsTheOnlyActive ==
    (/\ AllAnswered
     /\ \E i \in DOMAIN requests :
            requests[i].kind = "put" /\ requests[i].body.parameters # "")
    => /\ \A j \in DOMAIN db.versions : db.versions[j].version = j
       /\ db.versions[1].parameters = "p0"
       /\ {j \in DOMAIN db.versions : db.versions[j].isActive} = {Len(db.versions)}

\* C27: once a PUT /api/policies/[id] has completed and every GET that
\* overlapped it has returned, the cache entry policy:<id>, if present,
\* equals the policy as the database holds it.
C27_CachedPolicyIsCurrent ==
    (/\ AllAnswered
     /\ \E i \in DOMAIN requests : requests[i].kind = "put")
    => (PolicyKey \in DOMAIN cache => cache[PolicyKey].value = findPolicy)

(***************************************************************************)
(* Claims about the simulation results.                                    *)
(***************************************************************************)
\* C28: GET /api/simulations/[id]/results with includeDetails=true always
\* returns a payload with detailedResults and monthlyProjections, and a
\* request without includeDetails never contains them, whichever results
\* requests were served before.
C28_DetailsAsRequested ==
    \A i \in DOMAIN requests :
        (requests[i].kind = "results" /\ requests[i].pc = "done"
            /\ requests[i].status = 200)
        => /\ requests[i].payload.detailedResults = requests[i].includeDetails
           /\ requests[i].payload.monthlyProjections = requests[i].includeDetails

\* C29: after a DELETE /api/simulations/[id] has succeeded, every later GET
\* of the results returns 404: the payload that earlier GET requests cached
\* is never served for the deleted simulation.
C29_NoResultsAfterDelete ==
    \A i \in DOMAIN requests :
        (requests[i].kind = "results" /\ requests[i].pc = "done"
            /\ requests[i].afterDelete)
        => requests[i].status = 404

(***************************************************************************)
(* Claims about the scenario handlers (checked under SpecScenario).        *)
(***************************************************************************)
\* what a scenarioPolicy row links to, whatever scenario it belongs to
Pinned(links) ==
    {[policyId |-> sp.policyId, policyVersionId |-> sp.policyVersionId,
      parameterOverrides |-> sp.parameterOverrides] : sp \in links}

\* but for the rows and the links of scenario id, the step leaves every
\* scenario as it is
OnlyTouches(id) ==
    /\ DOMAIN db.scenarios \ {id} = DOMAIN db'.scenarios \ {id}
    /\ \A other \in DOMAIN db.scenarios \ {id} :
          /\ db'.scenarios[other] = db.scenarios[other]
          /\ policiesOf(db'.links, other) = policiesOf(db.links, other)

\* no PUT has been sent to scenario id
NoPutOn(id) ==
    \A j \in DOMAIN requests : ~(requests[j].kind = "put" /\ requests[j].id = id)

\* C21: a clone reads the original and its links (clone time) and changes
\* nothing; it then creates one new row with status 'draft', isBaseline
\* false and parentScenarioId the original's id, and copies the links it
\* read one by one with the same policyId, policyVersionId and
\* parameterOverrides, so that when it answers 201 the links of a clone
\* that no PUT was sent to are those the original had at clone time; no step
\* of a clone changes a row or a link of another scenario, the original
\* included; and a step of a PUT on a scenario changes only that scenario's
\* row and links.
C21_CloneCopiesAndBranchesAreIsolated ==
    [][\A i \in DOMAIN requests :
          requests'[i] # requests[i] =>
          /\ (requests[i].kind = "clone" /\ requests[i].pc = "find") =>
                /\ db' = db
                /\ requests'[i].pc = "create" =>
                      /\ requests'[i].original = db.scenarios[requests[i].id]
                      /\ requests'[i].policies = policiesOf(db.links, requests[i].id)
          /\ (requests[i].kind = "clone" /\ requests[i].pc = "create") =>
                /\ requests'[i].cloned \notin DOMAIN db.scenarios
                /\ DOMAIN db'.scenarios = DOMAIN db.scenarios \cup {requests'[i].cloned}
                /\ db'.scenarios[requests'[i].cloned].status = "draft"
                /\ db'.scenarios[requests'[i].cloned].isBaseline = FALSE
                /\ db'.scenarios[requests'[i].cloned].parentScenarioId = requests[i].id
                /\ db'.links = db.links
                /\ OnlyTouches(requests'[i].cloned)
          /\ (requests[i].kind = "clone" /\ requests[i].pc = "copy") =>
                /\ db'.scenarios = db.scenarios
                /\ OnlyTouches(requests[i].cloned)
                /\ policiesOf(db.links, requests[i].cloned) \subseteq
                       policiesOf(db'.links, requests[i].cloned)
                /\ (requests'[i].status = 201 /\ NoPutOn(requests[i].cloned)) =>
                      Pinned(policiesOf(db'.links, requests[i].cloned))
                          = Pinned(requests[i].policies)
          /\ requests[i].kind = "put" => OnlyTouches(requests[i].id)]_vars

\* a clone of a scenario with links has answered 201 and a PUT has since
\* replaced the links of the original: the clone still has the links and the
\* pinned version that the original had at clone time, the original has not
C21_Witness ==
    \E i, j \in DOMAIN requests :
        /\ i < j
        /\ requests[i].kind = "clone" /\ requests[i].status = 201
        /\ requests[j].kind = "put" /\ requests[j].status = 200
        /\ requests[j].id = requests[i].id /\ requests[j].body.hasPolicies
        /\ requests[i].policies # {}
        /\ Pinned(policiesOf(db.links, requests[i].cloned)) = Pinned(requests[i].policies)
        /\ Pinned(policiesOf(db.links, requests[i].id)) # Pinned(requests[i].policies)
        /\ db.scenarios[requests[i].cloned].parentScenarioId = requests[i].id

\* C30: no baseline scenario is archived.
C30_NoArchivedBaseline ==
    \A id \in DOMAIN db.scenarios :
        ~(db.scenarios[id].isBaseline /\ db.scenarios[id].status = "archived")

(***************************************************************************)
(* Claims about the record of a simulation run (checked under              *)
(* SpecRunFair).                                                           *)
(***************************************************************************)
\* the record of simulation id is there and neither completed with
\* progress 100 nor failed
Unfinished(id) ==
    /\ id \in DOMAIN db.simulations
    /\ ~ \/ db.simulations[id].status = "completed" /\ db.simulations[id].progress = 100
         \/ db.simulations[id].status = "failed"

\* C26: every simulation record that runSimulation creates eventually has a
\* terminal status, 'completed' with progress 100 or 'failed' (or is gone).
C26_EveryRecordReachesATerminalStatus ==
    \A id \in 1..MaxRequests : Unfinished(id) ~> ~Unfinished(id)

=============================================================================
